---- MODULE Spec2Model ----
(***************************************************************************)
(* A model of the nl80211 client of package wifi: the attribute parsers   *)
(* (attribute_parsers.go), the information-element parser, and the two    *)
(* client variants kept in the repository (client.go, built on get, and   *)
(* the variant with a pending error field).                               *)
(*                                                                         *)
(* The byte-level netlink framing (netlink.UnmarshalAttributes, the       *)
(* socket) belongs to the transport library.  A payload is therefore kept *)
(* in both of its readings: Raw, the bytes a leaf decoder (nlenc) reads,  *)
(* and Attrs, the attribute list UnmarshalAttributes yields unless the    *)
(* payload is Malformed.                                                  *)
(***************************************************************************)
EXTENDS Integers, Sequences, FiniteSets, TLC

VARIABLES
    op,     \* the operation that ran last ("init" before any)
    arg,    \* its argument(s)
    ret,    \* what it returned to its caller
    cerr,   \* Client.err, the pending error field of the second client variant
    inbox,  \* the transport's receive queue: reply batches not yet read
    last,   \* what the last operation did on the transport
    nops,   \* number of client operations issued so far
    conn    \* the generic netlink connection: "none" until dialed, "open", "closed"

vars == <<op, arg, ret, cerr, inbox, last, nops, conn>>

----------------------------------------------------------------------------
(* Bounds of the model. *)

\* largest counter / bitrate value carried by a generated attribute
MaxCounter == 2
\* longest generated station-info attribute stream
MaxStaAttrs == 3
\* longest generated rate-info attribute stream
MaxRateAttrs == 3

----------------------------------------------------------------------------
(* Generic helpers. *)

Nil == "nil"

\* all sequences over S of length at most n
SeqUpTo(S, n) == UNION {[1..k -> S] : k \in 0..n}

\* the elements of a sequence, as a set
Range(s) == {s[i] : i \in 1..Len(s)}

\* indices of the attributes of type typ in attrs
IndicesOf(attrs, typ) == {i \in 1..Len(attrs) : attrs[i].Type = typ}

----------------------------------------------------------------------------
(* Payloads and attributes. *)

\* a leaf payload: bytes only
Leaf(bytes) == [Raw |-> bytes, Attrs |-> <<>>, Malformed |-> FALSE]
\* a payload that unmarshals to attrs
NestedData(attrs) == [Raw |-> <<>>, Attrs |-> attrs, Malformed |-> FALSE]
\* a payload on which UnmarshalAttributes fails
MalformedData == [Raw |-> <<>>, Attrs |-> <<>>, Malformed |-> TRUE]

Attr(typ, data) == [Type |-> typ, Data |-> data]

\* netlink.UnmarshalAttributes as the parsers use it: a list or an error
UnmarshalAttributes(data) ==
    IF data.Malformed
    THEN [attrs |-> <<>>, err |-> "unmarshal"]
    ELSE [attrs |-> data.Attrs, err |-> Nil]

\* little-endian encodings, as the kernel writes them
PutUint16(v) == <<v % 256, (v \div 256) % 256>>
PutUint32(v) == <<v % 256, (v \div 256) % 256, (v \div 65536) % 256, (v \div 16777216) % 256>>
PutUint64(v) == PutUint32(v) \o <<0, 0, 0, 0>>

\* nlenc.Uint16 / Uint32 / Uint64: the little-endian value of exactly 2 / 4 / 8
\* bytes (any other length panics; the streams generated here carry the
\* kernel's widths)
nlencUint16(b) == b[1] + 256 * b[2]
nlencUint32(b) == b[1] + 256 * b[2] + 65536 * b[3] + 16777216 * b[4]
nlencUint64(b) == nlencUint32(SubSeq(b, 1, 4))

----------------------------------------------------------------------------
(* parseRateInfo (attribute_parsers.go). *)

\* one iteration of the loop of parseRateInfo over attribute a
RateStep(bitrate, a) ==
    LET b1 == IF a.Type = "RATE_INFO_BITRATE32" THEN nlencUint32(a.Data.Raw) ELSE bitrate
    IN  IF b1 = 0 /\ a.Type = "RATE_INFO_BITRATE" THEN nlencUint16(a.Data.Raw) ELSE b1

RECURSIVE RateFold(_, _)
RateFold(bitrate, attrs) ==
    IF attrs = <<>> THEN bitrate
    ELSE RateFold(RateStep(bitrate, Head(attrs)), Tail(attrs))

parseRateInfo(data) ==
    LET u == UnmarshalAttributes(data)
    IN  IF u.err # Nil
        THEN [bitrate |-> 0, err |-> "parseRateInfo: unmarshal"]
        ELSE [bitrate |-> RateFold(0, u.attrs) * 100000, err |-> Nil]

----------------------------------------------------------------------------
(* StationInfo.parseAttributes (attribute_parsers.go). *)

\* the zero value of StationInfo; a duration is kept as its count and unit
ZeroStationInfo ==
    [HardwareAddr |-> <<>>,
     Connected |-> [n |-> 0, unit |-> "s"],
     Inactive |-> [n |-> 0, unit |-> "ms"],
     ReceivedBytes |-> 0, TransmittedBytes |-> 0,
     ReceivedPackets |-> 0, TransmittedPackets |-> 0,
     ReceiveBitrate |-> 0, TransmitBitrate |-> 0,
     Signal |-> 0, TransmitRetries |-> 0, TransmitFailed |-> 0,
     BeaconLoss |-> 0]

\* int(int8(b)): a byte read as a signed 8-bit value
Int8(b) == IF b >= 128 THEN b - 256 ELSE b

\* the switch statement of the loop body; st = [info, err]
StaSwitch(info, a) ==
    CASE a.Type = "STA_INFO_CONNECTED_TIME" ->
           [info |-> [info EXCEPT !.Connected = [n |-> nlencUint32(a.Data.Raw), unit |-> "s"]], err |-> Nil]
      [] a.Type = "STA_INFO_INACTIVE_TIME" ->
           [info |-> [info EXCEPT !.Inactive = [n |-> nlencUint32(a.Data.Raw), unit |-> "ms"]], err |-> Nil]
      [] a.Type = "STA_INFO_RX_BYTES64" ->
           [info |-> [info EXCEPT !.ReceivedBytes = nlencUint64(a.Data.Raw)], err |-> Nil]
      [] a.Type = "STA_INFO_TX_BYTES64" ->
           [info |-> [info EXCEPT !.TransmittedBytes = nlencUint64(a.Data.Raw)], err |-> Nil]
      [] a.Type = "STA_INFO_SIGNAL" ->
           [info |-> [info EXCEPT !.Signal = Int8(a.Data.Raw[1])], err |-> Nil]
      [] a.Type = "STA_INFO_RX_PACKETS" ->
           [info |-> [info EXCEPT !.ReceivedPackets = nlencUint32(a.Data.Raw)], err |-> Nil]
      [] a.Type = "STA_INFO_TX_PACKETS" ->
           [info |-> [info EXCEPT !.TransmittedPackets = nlencUint32(a.Data.Raw)], err |-> Nil]
      [] a.Type = "STA_INFO_TX_RETRIES" ->
           [info |-> [info EXCEPT !.TransmitRetries = nlencUint32(a.Data.Raw)], err |-> Nil]
      [] a.Type = "STA_INFO_TX_FAILED" ->
           [info |-> [info EXCEPT !.TransmitFailed = nlencUint32(a.Data.Raw)], err |-> Nil]
      [] a.Type = "STA_INFO_BEACON_LOSS" ->
           [info |-> [info EXCEPT !.BeaconLoss = nlencUint32(a.Data.Raw)], err |-> Nil]
      [] a.Type \in {"STA_INFO_RX_BITRATE", "STA_INFO_TX_BITRATE"} ->
           LET r == parseRateInfo(a.Data)
           IN  IF r.err # Nil THEN [info |-> info, err |-> r.err]
               ELSE IF a.Type = "STA_INFO_RX_BITRATE"
                    THEN [info |-> [info EXCEPT !.ReceiveBitrate = r.bitrate], err |-> Nil]
                    ELSE [info |-> [info EXCEPT !.TransmitBitrate = r.bitrate], err |-> Nil]
      [] OTHER -> [info |-> info, err |-> Nil]

\* a decoder without the 32-bit fallbacks
StaFallbackNone(info, a) == info

\* the two 32-bit fallbacks that follow the switch
StaFallback(info, a) ==
    LET i1 == IF info.ReceivedBytes = 0 /\ a.Type = "STA_INFO_RX_BYTES"
              THEN [info EXCEPT !.ReceivedBytes = nlencUint32(a.Data.Raw)] ELSE info
    IN  IF i1.TransmittedBytes = 0 /\ a.Type = "STA_INFO_TX_BYTES"
        THEN [i1 EXCEPT !.TransmittedBytes = nlencUint32(a.Data.Raw)] ELSE i1

\* one iteration of the loop: the switch (which may return an error), then
\* the fallbacks
StaStep(info, a) ==
    LET s == StaSwitch(info, a)
    IN  IF s.err # Nil THEN s ELSE [info |-> StaFallback(s.info, a), err |-> Nil]

RECURSIVE StationInfo_parseAttributes(_, _)
StationInfo_parseAttributes(info, attrs) ==
    IF attrs = <<>> THEN [info |-> info, err |-> Nil]
    ELSE LET s == StaStep(info, Head(attrs))
         IN  IF s.err # Nil THEN s
             ELSE StationInfo_parseAttributes(s.info, Tail(attrs))

----------------------------------------------------------------------------
(* Inputs of the station-info and rate-info decoders. *)

\* the values a generated counter or bitrate attribute carries: small ones
\* and one that needs its second byte
CounterVals == (0..MaxCounter) \cup {258}

U32Attrs(typ) == {Attr(typ, Leaf(PutUint32(v))) : v \in CounterVals}
U64Attrs(typ) == {Attr(typ, Leaf(PutUint64(v))) : v \in CounterVals}
U16Attrs(typ) == {Attr(typ, Leaf(PutUint16(v))) : v \in CounterVals}

\* station-info attributes: both widths of both byte counters, one other
\* known attribute and one the decoder does not know
StaPool ==
    U32Attrs("STA_INFO_RX_BYTES") \cup U64Attrs("STA_INFO_RX_BYTES64")
    \cup U32Attrs("STA_INFO_TX_BYTES") \cup U64Attrs("STA_INFO_TX_BYTES64")
    \cup {Attr("STA_INFO_RX_PACKETS", Leaf(PutUint32(1))),
          Attr("STA_INFO_UNKNOWN", Leaf(<<1>>))}

\* rate-info attributes: both widths of the bitrate and one unknown attribute
RatePool ==
    U16Attrs("RATE_INFO_BITRATE") \cup U32Attrs("RATE_INFO_BITRATE32")
    \cup {Attr("RATE_INFO_UNKNOWN", Leaf(<<1>>))}

\* the value of the attribute at index i, read at the width of its type
ValueAt(attrs, i) ==
    IF attrs[i].Type \in {"STA_INFO_RX_BYTES64", "STA_INFO_TX_BYTES64"}
    THEN nlencUint64(attrs[i].Data.Raw)
    ELSE IF attrs[i].Type = "RATE_INFO_BITRATE"
         THEN nlencUint16(attrs[i].Data.Raw)
         ELSE nlencUint32(attrs[i].Data.Raw)

\* the transport is not involved in a decoder run
NoTrace ==
    [sends |-> <<>>, recvs |-> 0, sendErr |-> FALSE, recvErr |-> FALSE,
     batch |-> <<>>, msgs |-> <<>>, err |-> Nil]

\* a constructed client that has done nothing yet, its connection open
Idle == cerr = Nil /\ inbox = <<>> /\ last = NoTrace /\ nops = 0 /\ conn = "open"

----------------------------------------------------------------------------
(* SpecStaInfo: StationInfo.parseAttributes applied to a generated stream. *)

InitStaInfo ==
    /\ op = "init"
    /\ arg \in SeqUpTo(StaPool, MaxStaAttrs)
    /\ ret = Nil
    /\ Idle

RunStaParseAttributes ==
    /\ op = "init"
    /\ op' = "StationInfo.parseAttributes"
    /\ ret' = StationInfo_parseAttributes(ZeroStationInfo, arg)
    /\ UNCHANGED <<arg, cerr, inbox, last, nops, conn>>

NextStaInfo == RunStaParseAttributes

SpecStaInfo == InitStaInfo /\ [][NextStaInfo]_vars

StaParsed == op = "StationInfo.parseAttributes"

\* C1 (as claimed): when a stream holds a 32-bit byte counter and the 64-bit
\* one, in either order and whatever their values, the decoded byte count is
\* the 64-bit counter's value (for received and for transmitted bytes).
C1_WideCounterWins ==
    StaParsed =>
        /\ \A i \in IndicesOf(arg, "STA_INFO_RX_BYTES64") :
              (IndicesOf(arg, "STA_INFO_RX_BYTES64") = {i}
               /\ IndicesOf(arg, "STA_INFO_RX_BYTES") # {})
              => ret.info.ReceivedBytes = ValueAt(arg, i)
        /\ \A i \in IndicesOf(arg, "STA_INFO_TX_BYTES64") :
              (IndicesOf(arg, "STA_INFO_TX_BYTES64") = {i}
               /\ IndicesOf(arg, "STA_INFO_TX_BYTES") # {})
              => ret.info.TransmittedBytes = ValueAt(arg, i)

\* C2: when a stream holds a 32-bit byte counter and no 64-bit one, the
\* decoded byte count is the value of a 32-bit counter of the stream, hence of
\* that counter when there is one (for received and for transmitted bytes).
C2_NarrowCounterUsed ==
    StaParsed =>
        /\ (IndicesOf(arg, "STA_INFO_RX_BYTES64") = {}
            /\ IndicesOf(arg, "STA_INFO_RX_BYTES") # {})
           => /\ ret.err = Nil
              /\ \E i \in IndicesOf(arg, "STA_INFO_RX_BYTES") :
                    ret.info.ReceivedBytes = ValueAt(arg, i)
        /\ (IndicesOf(arg, "STA_INFO_TX_BYTES64") = {}
            /\ IndicesOf(arg, "STA_INFO_TX_BYTES") # {})
           => /\ ret.err = Nil
              /\ \E i \in IndicesOf(arg, "STA_INFO_TX_BYTES") :
                    ret.info.TransmittedBytes = ValueAt(arg, i)

\* a stream with one 32-bit receive counter of value 258, one 32-bit transmit
\* counter of value 1 and no 64-bit counter has been decoded to those values
C2_Witness ==
    /\ StaParsed
    /\ IndicesOf(arg, "STA_INFO_RX_BYTES64") = {}
    /\ IndicesOf(arg, "STA_INFO_TX_BYTES64") = {}
    /\ \E i, j \in 1..Len(arg) :
          /\ IndicesOf(arg, "STA_INFO_RX_BYTES") = {i}
          /\ IndicesOf(arg, "STA_INFO_TX_BYTES") = {j}
          /\ ValueAt(arg, i) = 258
          /\ ValueAt(arg, j) = 1
    /\ ret.info.ReceivedBytes = 258
    /\ ret.info.TransmittedBytes = 1

----------------------------------------------------------------------------
(* SpecRate: parseRateInfo applied to a generated stream. *)

InitRate ==
    /\ op = "init"
    /\ arg \in SeqUpTo(RatePool, MaxRateAttrs)
    /\ ret = Nil
    /\ Idle

RunParseRateInfo ==
    /\ op = "init"
    /\ op' = "parseRateInfo"
    /\ ret' = parseRateInfo(NestedData(arg))
    /\ UNCHANGED <<arg, cerr, inbox, last, nops, conn>>

NextRate == RunParseRateInfo

SpecRate == InitRate /\ [][NextRate]_vars

RateParsed == op = "parseRateInfo"

\* C6 (as claimed): the result is 100000 times the value of the BITRATE32
\* attribute whenever the stream holds one, wherever the 16-bit BITRATE stands,
\* and 100000 times the 16-bit BITRATE when there is no BITRATE32.
C6_WideBitrateWins ==
    RateParsed =>
        /\ \A i \in IndicesOf(arg, "RATE_INFO_BITRATE32") :
              IndicesOf(arg, "RATE_INFO_BITRATE32") = {i}
              => ret.bitrate = 100000 * ValueAt(arg, i)
        /\ \A i \in IndicesOf(arg, "RATE_INFO_BITRATE") :
              (IndicesOf(arg, "RATE_INFO_BITRATE32") = {}
               /\ IndicesOf(arg, "RATE_INFO_BITRATE") = {i})
              => ret.bitrate = 100000 * ValueAt(arg, i)

----------------------------------------------------------------------------
(* parseIEs: the information-element parser. *)

errInvalidIE == "invalid 802.11 information element"

\* a variant that, when fewer bytes remain than the declared length, keeps
\* the bytes that remain instead of failing
RECURSIVE parseIEsFromTruncating(_, _, _)
parseIEsFromTruncating(b, i, ies) ==
    IF Len(b) - i = 0 THEN [ies |-> ies, err |-> Nil]
    ELSE IF Len(b) - i < 2 THEN [ies |-> <<>>, err |-> errInvalidIE]
    ELSE LET id == b[i + 1]
             l  == b[i + 2]
             j  == i + 2
             e  == IF j + l > Len(b) THEN Len(b) ELSE j + l
         IN  parseIEsFromTruncating(b, e, Append(ies, [ID |-> id, Data |-> SubSeq(b, j + 1, e)]))

\* the loop of parseIEs from offset i (0-based, as in the source) with the
\* elements collected so far
RECURSIVE parseIEsFrom(_, _, _)
parseIEsFrom(b, i, ies) ==
    IF Len(b) - i = 0 THEN [ies |-> ies, err |-> Nil]
    ELSE IF Len(b) - i < 2 THEN [ies |-> <<>>, err |-> errInvalidIE]
    ELSE LET id == b[i + 1]
             l  == b[i + 2]
             j  == i + 2
         IN  IF Len(b) - j < l THEN [ies |-> <<>>, err |-> errInvalidIE]
             ELSE parseIEsFrom(b, j + l, Append(ies, [ID |-> id, Data |-> SubSeq(b, j + 1, j + l)]))

parseIEs(b) == parseIEsFrom(b, 0, <<>>)

----------------------------------------------------------------------------
(* SpecIE: parseIEs applied to a generated byte sequence. *)

\* largest byte value generated (ids and lengths)
MaxByte == 2
\* longest generated byte sequence
MaxIEBytes == 5

InitIE ==
    /\ op = "init"
    /\ arg \in SeqUpTo(0..MaxByte, MaxIEBytes)
    /\ ret = Nil
    /\ Idle

RunParseIEs ==
    /\ op = "init"
    /\ op' = "parseIEs"
    /\ ret' = parseIEs(arg)
    /\ UNCHANGED <<arg, cerr, inbox, last, nops, conn>>

NextIE == RunParseIEs

SpecIE == InitIE /\ [][NextIE]_vars

\* A framing of b: the set of offsets at which a record starts, and Len(b).
\* Each record is one id byte, one length byte L and L payload bytes, and the
\* next record (or the end) follows at once.
NextCut(S, p) == CHOOSE q \in S : q > p /\ \A r \in S : r > p => q <= r

IsFraming(b, S) ==
    /\ 0 \in S
    /\ Len(b) \in S
    /\ \A p \in S \ {Len(b)} :
          /\ NextCut(S, p) - p >= 2
          /\ b[p + 2] = NextCut(S, p) - p - 2

Framings(b) == {S \in SUBSET (0..Len(b)) : IsFraming(b, S)}

\* the elements a framing denotes match ies, in order
MatchesFraming(b, S, ies) ==
    /\ Len(ies) = Cardinality(S) - 1
    /\ \A p \in S \ {Len(b)} :
          LET k == Cardinality({q \in S : q <= p})
          IN  /\ ies[k].ID = b[p + 1]
              /\ ies[k].Data = SubSeq(b, p + 3, NextCut(S, p))

\* C5: parseIEs succeeds exactly when its input is a concatenation of records
\* (id, length L, L payload bytes); it then returns one element per record, in
\* order, with that id and those payload bytes (none for the empty input); in
\* every other case it returns errInvalidIE and no element.
C5_ParseIEsExact ==
    op = "parseIEs" =>
        /\ (ret.err = Nil) <=> (Framings(arg) # {})
        /\ ret.err = Nil => \A S \in Framings(arg) : MatchesFraming(arg, S, ret.ies)
        /\ ret.err # Nil => (ret.err = errInvalidIE /\ ret.ies = <<>>)
        /\ arg = <<>> => (ret.err = Nil /\ ret.ies = <<>>)

\* two records have been decoded, the first with a payload
C5_Witness ==
    /\ op = "parseIEs"
    /\ ret.err = Nil
    /\ Len(ret.ies) = 2
    /\ Len(ret.ies[1].Data) >= 1

----------------------------------------------------------------------------
(* parseBSS, BSS.parseAttributes, decodeSSID, attrsContain                 *)
(* (attribute_parsers.go).                                                 *)

ErrNotExist == "os.ErrNotExist"

\* an optional result (a Go pointer that may be nil)
None == <<>>
Some(x) == <<x>>

ZeroBSS ==
    [SSID |-> <<>>, BSSID |-> <<>>, Frequency |-> 0,
     BeaconInterval |-> [n |-> 0, unit |-> "1024us"],
     LastSeen |-> [n |-> 0, unit |-> "ms"],
     Status |-> 0]

ieSSID == 0

\* decodeSSID: the runes of a byte run.  A byte below 128 is its own rune; any
\* other byte of the inputs generated here is an invalid encoding and decodes
\* to the replacement rune.
decodeSSID(b) == [i \in 1..Len(b) |-> IF b[i] < 128 THEN b[i] ELSE 65533]

\* the loop over the parsed elements: the last SSID element wins
RECURSIVE ApplyIEs(_, _)
ApplyIEs(b, ies) ==
    IF ies = <<>> THEN b
    ELSE ApplyIEs(IF Head(ies).ID = ieSSID
                  THEN [b EXCEPT !.SSID = decodeSSID(Head(ies).Data)] ELSE b,
                  Tail(ies))

\* one iteration of the loop of BSS.parseAttributes
BSSStep(b, a) ==
    CASE a.Type = "BSS_BSSID" -> [bss |-> [b EXCEPT !.BSSID = a.Data.Raw], err |-> Nil]
      [] a.Type = "BSS_FREQUENCY" ->
           [bss |-> [b EXCEPT !.Frequency = nlencUint32(a.Data.Raw)], err |-> Nil]
      [] a.Type = "BSS_BEACON_INTERVAL" ->
           [bss |-> [b EXCEPT !.BeaconInterval = [n |-> nlencUint16(a.Data.Raw), unit |-> "1024us"]],
            err |-> Nil]
      [] a.Type = "BSS_SEEN_MS_AGO" ->
           [bss |-> [b EXCEPT !.LastSeen = [n |-> nlencUint32(a.Data.Raw), unit |-> "ms"]],
            err |-> Nil]
      [] a.Type = "BSS_STATUS" ->
           [bss |-> [b EXCEPT !.Status = nlencUint32(a.Data.Raw)], err |-> Nil]
      [] a.Type = "BSS_INFORMATION_ELEMENTS" ->
           LET r == parseIEs(a.Data.Raw)
           IN  IF r.err # Nil THEN [bss |-> b, err |-> "failed to parse IEs"]
               ELSE [bss |-> ApplyIEs(b, r.ies), err |-> Nil]
      [] OTHER -> [bss |-> b, err |-> Nil]

RECURSIVE BSS_parseAttributes(_, _)
BSS_parseAttributes(b, attrs) ==
    IF attrs = <<>> THEN [bss |-> b, err |-> Nil]
    ELSE LET s == BSSStep(b, Head(attrs))
         IN  IF s.err # Nil THEN s ELSE BSS_parseAttributes(s.bss, Tail(attrs))

\* a variant that takes any non-empty attribute set to contain the type
attrsContainAny(attrs, typ) == attrs # <<>>

attrsContain(attrs, typ) == \E i \in 1..Len(attrs) : attrs[i].Type = typ

\* the inner loop of parseBSS over the attributes of one message; found tells
\* whether the function returned (a BSS or an error) inside this message
RECURSIVE parseBSSAttrs(_)
parseBSSAttrs(attrs) ==
    IF attrs = <<>> THEN [found |-> FALSE, bss |-> None, err |-> Nil]
    ELSE LET a == Head(attrs)
         IN  IF a.Type # "ATTR_BSS" THEN parseBSSAttrs(Tail(attrs))
             ELSE LET n == UnmarshalAttributes(a.Data)
                  IN  IF n.err # Nil
                      THEN [found |-> TRUE, bss |-> None, err |-> "failed to unmarshal attributes"]
                      ELSE IF ~attrsContain(n.attrs, "BSS_STATUS")
                      THEN parseBSSAttrs(Tail(attrs))
                      ELSE LET r == BSS_parseAttributes(ZeroBSS, n.attrs)
                           IN  IF r.err # Nil
                               THEN [found |-> TRUE, bss |-> None, err |-> "failed to parse attributes"]
                               ELSE [found |-> TRUE, bss |-> Some(r.bss), err |-> Nil]

RECURSIVE parseBSS(_)
parseBSS(msgs) ==
    IF msgs = <<>> THEN [bss |-> None, err |-> ErrNotExist]
    ELSE LET u == UnmarshalAttributes(Head(msgs).Data)
         IN  IF u.err # Nil THEN [bss |-> None, err |-> "failed to unmarshal attributes"]
             ELSE LET r == parseBSSAttrs(u.attrs)
                  IN  IF r.found THEN [bss |-> r.bss, err |-> r.err]
                      ELSE parseBSS(Tail(msgs))

----------------------------------------------------------------------------
(* SpecBSS: parseBSS applied to generated response messages. *)

\* most BSS-level attributes generated over all messages of a response
MaxBssAttrs == 3

Msg(data) == [Data |-> data]

BytesAB == <<97, 98>>

\* nested attribute sets of a BSS attribute, each with a frequency of its own:
\* two without a status, two with one, and one with a status whose information
\* elements are malformed (a declared length of 3 with two bytes left)
BssNestedPool ==
    { <<Attr("BSS_FREQUENCY", Leaf(PutUint32(2412)))>>,
      <<Attr("BSS_BSSID", Leaf(<<1, 2, 3, 4, 5, 6>>)), Attr("BSS_FREQUENCY", Leaf(PutUint32(5180)))>>,
      <<Attr("BSS_STATUS", Leaf(PutUint32(1))), Attr("BSS_FREQUENCY", Leaf(PutUint32(2437)))>>,
      <<Attr("BSS_FREQUENCY", Leaf(PutUint32(5200))), Attr("BSS_STATUS", Leaf(PutUint32(0))),
        Attr("BSS_INFORMATION_ELEMENTS", Leaf(<<0, 2>> \o BytesAB))>>,
      <<Attr("BSS_FREQUENCY", Leaf(PutUint32(2462))), Attr("BSS_STATUS", Leaf(PutUint32(1))),
        Attr("BSS_INFORMATION_ELEMENTS", Leaf(<<0, 3>> \o BytesAB))>> }

\* the attributes of a scan response: BSS attributes, one whose payload does
\* not unmarshal, and one attribute of another type
BssPool ==
    {Attr("ATTR_BSS", NestedData(n)) : n \in BssNestedPool}
    \cup {Attr("ATTR_BSS", MalformedData), Attr("ATTR_IFINDEX", Leaf(PutUint32(1)))}

\* the attributes s as one message, or as one message each
OneMsg(s) == <<Msg(NestedData(s))>>
EachMsg(s) == [i \in 1..Len(s) |-> Msg(NestedData(<<s[i]>>))]

\* responses: the attributes in one message or one per message, and the
\* latter with a message that does not unmarshal before or after
BssResponses ==
    UNION { {OneMsg(s), EachMsg(s),
             <<Msg(MalformedData)>> \o EachMsg(s),
             EachMsg(s) \o <<Msg(MalformedData)>>} : s \in SeqUpTo(BssPool, MaxBssAttrs) }

InitBSS ==
    /\ op = "init"
    /\ arg \in BssResponses
    /\ ret = Nil
    /\ Idle

RunParseBSS ==
    /\ op = "init"
    /\ op' = "parseBSS"
    /\ ret' = parseBSS(arg)
    /\ UNCHANGED <<arg, cerr, inbox, last, nops, conn>>

NextBSS == RunParseBSS

SpecBSS == InitBSS /\ [][NextBSS]_vars

\* the places <<message, attribute>> of the BSS-tagged attributes of msgs
BssPlaces(msgs) ==
    UNION { {<<m, k>> : k \in IndicesOf(msgs[m].Data.Attrs, "ATTR_BSS")} :
            m \in {m \in 1..Len(msgs) : ~msgs[m].Data.Malformed} }

NestedAt(msgs, pl) == msgs[pl[1]].Data.Attrs[pl[2]].Data

\* every message, every BSS payload and every information-element run decodes
WellFormedBSS(msgs) ==
    /\ \A m \in 1..Len(msgs) : ~msgs[m].Data.Malformed
    /\ \A pl \in BssPlaces(msgs) :
          /\ ~NestedAt(msgs, pl).Malformed
          /\ \A i \in IndicesOf(NestedAt(msgs, pl).Attrs, "BSS_INFORMATION_ELEMENTS") :
                parseIEs(NestedAt(msgs, pl).Attrs[i].Data.Raw).err = Nil

\* the places whose nested attribute set holds a status tag
StatusPlaces(msgs) ==
    {pl \in BssPlaces(msgs) : IndicesOf(NestedAt(msgs, pl).Attrs, "BSS_STATUS") # {}}

\* the frequency a nested set carries (each generated set carries one)
FrequencyOf(attrs) ==
    LET i == CHOOSE i \in IndicesOf(attrs, "BSS_FREQUENCY") : TRUE
    IN  nlencUint32(attrs[i].Data.Raw)

\* C3: over well-formed messages in which exactly one BSS attribute's nested
\* set holds a status tag, parseBSS returns the BSS decoded from that set,
\* wherever it stands; when none holds one, it returns no BSS and
\* os.ErrNotExist.
C3_StatusBSSSelected ==
    (op = "parseBSS" /\ WellFormedBSS(arg)) =>
        /\ \A pl \in StatusPlaces(arg) :
              StatusPlaces(arg) = {pl} =>
                 /\ ret.err = Nil
                 /\ ret.bss = Some(BSS_parseAttributes(ZeroBSS, NestedAt(arg, pl).Attrs).bss)
                 /\ ret.bss[1].Frequency = FrequencyOf(NestedAt(arg, pl).Attrs)
        /\ StatusPlaces(arg) = {} => (ret.bss = None /\ ret.err = ErrNotExist)

\* three BSS records in one message, only the second with a status: the
\* second (frequency 5200, SSID "ab") has been returned
C3_Witness ==
    /\ op = "parseBSS"
    /\ WellFormedBSS(arg)
    /\ Len(arg) = 1
    /\ BssPlaces(arg) = {<<1, 1>>, <<1, 2>>, <<1, 3>>}
    /\ StatusPlaces(arg) = {<<1, 2>>}
    /\ ret.err = Nil
    /\ ret.bss[1].Frequency = 5200
    /\ ret.bss[1].SSID = BytesAB

----------------------------------------------------------------------------
(* parseStationInfo (attribute_parsers.go). *)

\* a variant that returns the record decoded so far, and no error, when the
\* message holds no STA_INFO attribute
RECURSIVE parseStationInfoAttrsLenient(_, _)
parseStationInfoAttrsLenient(info, attrs) ==
    IF attrs = <<>> THEN [info |-> Some(info), err |-> Nil]
    ELSE LET a == Head(attrs)
         IN  IF a.Type = "ATTR_MAC"
             THEN parseStationInfoAttrsLenient([info EXCEPT !.HardwareAddr = a.Data.Raw], Tail(attrs))
             ELSE IF a.Type = "ATTR_STA_INFO"
             THEN LET n == UnmarshalAttributes(a.Data)
                  IN  IF n.err # Nil
                      THEN [info |-> None, err |-> "failed to unmarshal attributes"]
                      ELSE LET r == StationInfo_parseAttributes(info, n.attrs)
                           IN  IF r.err # Nil
                               THEN [info |-> None, err |-> "failed to parse attributes"]
                               ELSE [info |-> Some(r.info), err |-> Nil]
             ELSE parseStationInfoAttrsLenient(info, Tail(attrs))

\* the loop of parseStationInfo: it returns at the first STA_INFO attribute,
\* and with os.ErrNotExist when the attributes run out
RECURSIVE parseStationInfoAttrs(_, _)
parseStationInfoAttrs(info, attrs) ==
    IF attrs = <<>> THEN [info |-> None, err |-> ErrNotExist]
    ELSE LET a == Head(attrs)
         IN  IF a.Type = "ATTR_MAC"
             THEN parseStationInfoAttrs([info EXCEPT !.HardwareAddr = a.Data.Raw], Tail(attrs))
             ELSE IF a.Type = "ATTR_STA_INFO"
             THEN LET n == UnmarshalAttributes(a.Data)
                  IN  IF n.err # Nil
                      THEN [info |-> None, err |-> "failed to unmarshal attributes"]
                      ELSE LET r == StationInfo_parseAttributes(info, n.attrs)
                           IN  IF r.err # Nil
                               THEN [info |-> None, err |-> "failed to parse attributes"]
                               ELSE [info |-> Some(r.info), err |-> Nil]
             ELSE parseStationInfoAttrs(info, Tail(attrs))

parseStationInfo(b) ==
    LET u == UnmarshalAttributes(b)
    IN  IF u.err # Nil THEN [info |-> None, err |-> "failed to unmarshal attributes"]
        ELSE parseStationInfoAttrs(ZeroStationInfo, u.attrs)

----------------------------------------------------------------------------
(* The transport: genetlink.Conn over a netlink socket, and the kernel      *)
(* behind it.  A reply batch is what one Receive call reads: the raw        *)
(* netlink messages of one reply.                                           *)

\* most data messages in the reply to a dump request
MaxReplyMsgs == 2
\* most client operations issued in one run
MaxOps == 2

RawData(id, data) == [kind |-> "data", errno |-> 0, req |-> id, Data |-> data]
\* an error-typed message: errno 0 is a pure acknowledgment
RawError(id, errno) == [kind |-> "error", errno |-> errno, req |-> id, Data |-> Leaf(<<>>)]

IsPureAck(raw) == raw.kind = "error" /\ raw.errno = 0
IsKernelError(raw) == raw.kind = "error" /\ raw.errno # 0

MacA == <<2, 0, 0, 0, 0, 1>>

\* payloads of station-dump messages: a station with its address first, one
\* with it last, a message without STA_INFO, a STA_INFO that does not
\* unmarshal, and a message that does not unmarshal
StationGood ==
    NestedData(<<Attr("ATTR_MAC", Leaf(MacA)),
                 Attr("ATTR_STA_INFO",
                      NestedData(<<Attr("STA_INFO_RX_BYTES", Leaf(PutUint32(1)))>>))>>)

StationBodies ==
    { StationGood,
      NestedData(<<Attr("ATTR_STA_INFO",
                        NestedData(<<Attr("STA_INFO_TX_BYTES64", Leaf(PutUint64(2)))>>)),
                   Attr("ATTR_MAC", Leaf(MacA))>>),
      NestedData(<<Attr("ATTR_MAC", Leaf(MacA))>>),
      NestedData(<<Attr("ATTR_STA_INFO", MalformedData)>>),
      MalformedData }

\* the payloads the kernel answers with in the runs of several operations:
\* one well-formed payload per command
Bodies(cmd) ==
    CASE cmd = "CMD_GET_STATION" -> {StationGood}
      [] cmd = "CMD_GET_SCAN" ->
           { NestedData(<<Attr("ATTR_BSS",
                               NestedData(<<Attr("BSS_STATUS", Leaf(PutUint32(1))),
                                            Attr("BSS_FREQUENCY", Leaf(PutUint32(2437)))>>))>>) }
      [] cmd = "CMD_GET_INTERFACE" ->
           { NestedData(<<Attr("ATTR_IFINDEX", Leaf(PutUint32(1))),
                          Attr("ATTR_IFNAME", Leaf(<<119, 0>>))>>) }
      [] OTHER -> {}

\* What the kernel may queue in answer to request id: nothing or one batch.
\* Any request may be rejected (an error message).  A dump is answered by
\* zero or more data messages with payloads among bodies; a plain
\* GET_INTERFACE by one, or by a reply of no message (Receive may return
\* none); any other command by an acknowledgment when one was asked for and
\* by nothing otherwise.
KernelReplies(id, cmd, flags, bodies) ==
    {<< <<RawError(id, 1)>> >>} \cup
    ( IF "Dump" \in flags
      THEN { << [i \in 1..Len(b) |-> RawData(id, b[i])] >> : b \in SeqUpTo(bodies, MaxReplyMsgs) }
      ELSE IF cmd = "CMD_GET_INTERFACE"
      THEN { << <<RawData(id, b)>> >> : b \in bodies } \cup { << <<>> >> }
      ELSE IF "Acknowledge" \in flags
      THEN { << <<RawError(id, 0)>> >> }
      ELSE { <<>> } )

\* how the transport behaves during one exchange: whether the send and the
\* receive succeed, and what the kernel answers to a request that was sent
\* (nothing when the send failed)
Exchanges(id, cmd, flags, bodies) ==
    [sendOK : {TRUE}, reply : KernelReplies(id, cmd, flags, bodies), recvOK : BOOLEAN]
    \cup [sendOK : {FALSE}, reply : {<<>>}, recvOK : BOOLEAN]

\* genetlink.Conn.Send: a failed send sends nothing
ConnSend(inb, msg, flags, x) ==
    IF x.sendOK
    THEN [inbox |-> inb \o x.reply, sent |-> <<[msg |-> msg, flags |-> flags]>>, err |-> Nil]
    ELSE [inbox |-> inb, sent |-> <<>>, err |-> "send failed"]

\* genetlink.Conn.Receive: blocks while nothing is queued; a failed receive
\* reads nothing; a batch holding a kernel error is returned as that error;
\* any other batch is returned as one message per raw message (batch is the
\* batch taken off the queue)
ConnReceive(inb, x) ==
    IF ~x.recvOK
    THEN [inbox |-> inb, msgs |-> <<>>, batch |-> <<>>, err |-> "receive failed", blocked |-> FALSE]
    ELSE IF inb = <<>>
    THEN [inbox |-> inb, msgs |-> <<>>, batch |-> <<>>, err |-> Nil, blocked |-> TRUE]
    ELSE LET batch == Head(inb)
         IN  IF \E i \in 1..Len(batch) : IsKernelError(batch[i])
             THEN [inbox |-> Tail(inb), msgs |-> <<>>, batch |-> batch, err |-> "kernel error",
                   blocked |-> FALSE]
             ELSE [inbox |-> Tail(inb), msgs |-> [i \in 1..Len(batch) |-> Msg(batch[i].Data)],
                   batch |-> batch, err |-> Nil, blocked |-> FALSE]

----------------------------------------------------------------------------
(* The client of client.go: every operation is one call of get. *)

\* the interfaces operations are called with: one with a hardware address,
\* one without
WifiInterfaces ==
    { [Index |-> 1, Name |-> "wlan0", HardwareAddr |-> MacA],
      [Index |-> 2, Name |-> "wlan1", HardwareAddr |-> <<>>] }

\* an encoding that writes the hardware address after the index
WifiInterface_encodeWithMac(w) ==
    IF w = None THEN <<>>
    ELSE <<Attr("ATTR_IFINDEX", Leaf(PutUint32(w[1].Index))),
           Attr("ATTR_MAC", Leaf(w[1].HardwareAddr))>>

\* WifiInterface.encode: a no-op on nil
WifiInterface_encode(w) ==
    IF w = None THEN <<>>
    ELSE <<Attr("ATTR_IFINDEX", Leaf(PutUint32(w[1].Index)))>>

\* the encoder functions, as the attributes they write (nil writes none)
i32AttributeEncoder(attrType, attrVal) == <<Attr(attrType, Leaf(PutUint32(attrVal)))>>
channelWidthEncoder(width) == i32AttributeEncoder("ATTR_CHANNEL_WIDTH", width)
iftypeEncoder(iftype) == i32AttributeEncoder("ATTR_IFTYPE", iftype)
ifindexEncoder(ifindex) == i32AttributeEncoder("ATTR_IFINDEX", ifindex)
wiphyFreqEncoder(freq) == i32AttributeEncoder("ATTR_WIPHY_FREQ", freq)
hardwareAddrEncoder(mac) == IF mac = <<>> THEN <<>> ELSE <<Attr("ATTR_MAC", Leaf(mac))>>

\* Client.get: encode, send, receive.  The error of the send is overwritten
\* by that of the receive, and the raw messages Receive returns are dropped.
\* x is what the transport does during the call.
get(inb, cmd, flags, w, params, x) ==
    LET msg == [Header |-> [Command |-> cmd, Version |-> "familyVersion"],
                Data |-> WifiInterface_encode(w) \o params]
        s == ConnSend(inb, msg, {"Request"} \cup flags, x)
        r == ConnReceive(s.inbox, x)
    IN  [msgs |-> r.msgs, err |-> r.err, blocked |-> r.blocked, inbox |-> r.inbox,
         trace |-> [sends |-> s.sent, recvs |-> 1, sendErr |-> s.err # Nil,
                    recvErr |-> r.err # Nil, batch |-> r.batch, msgs |-> r.msgs,
                    err |-> r.err]]

\* an operation that never returns: its receive blocks for ever
Blocked == [blocked |-> TRUE, err |-> Nil, val |-> <<>>]
Returns(err, val) == [blocked |-> FALSE, err |-> err, val |-> val]

\* a loop that collects the records in reverse order
RECURSIVE StationsFromReversed(_, _)
StationsFromReversed(msgs, stations) ==
    IF msgs = <<>> THEN [blocked |-> FALSE, err |-> Nil, val |-> stations]
    ELSE LET r == parseStationInfo(Head(msgs).Data)
         IN  IF r.err # Nil THEN [blocked |-> FALSE, err |-> r.err, val |-> <<>>]
             ELSE StationsFromReversed(Tail(msgs), <<r.info[1]>> \o stations)

\* the loop of Client.StationInfo over the messages
RECURSIVE StationsFrom(_, _)
StationsFrom(msgs, stations) ==
    IF msgs = <<>> THEN Returns(Nil, stations)
    ELSE LET r == parseStationInfo(Head(msgs).Data)
         IN  IF r.err # Nil THEN Returns(r.err, <<>>)
             ELSE StationsFrom(Tail(msgs), Append(stations, r.info[1]))

\* what Client.StationInfo makes of the outcome g of its get
StationInfoResult(g) ==
    IF g.err # Nil THEN Returns(g.err, <<>>)
    ELSE IF g.msgs = <<>> THEN Returns(ErrNotExist, <<>>)
    ELSE StationsFrom(g.msgs, <<>>)

\* what Client.BSS makes of the outcome g of its get
BSSResult(g) ==
    IF g.err # Nil THEN Returns("BSS: failed to get the BSS", None)
    ELSE LET r == parseBSS(g.msgs) IN Returns(r.err, r.bss)

\* the state after a public operation name(a) whose get had outcome g and
\* which returns r
Completes(name, a, g, r) ==
    /\ nops < MaxOps
    /\ ret # Blocked
    /\ op' = name
    /\ arg' = a
    /\ ret' = IF g.blocked THEN Blocked ELSE r
    /\ inbox' = g.inbox
    /\ last' = g.trace
    /\ nops' = nops + 1
    /\ UNCHANGED <<cerr, conn>>

Client_StationInfo ==
    \E w \in WifiInterfaces, x \in Exchanges(nops + 1, "CMD_GET_STATION", {"Dump"}, Bodies("CMD_GET_STATION")) :
        LET g == get(inbox, "CMD_GET_STATION", {"Dump"}, Some(w),
                     hardwareAddrEncoder(w.HardwareAddr), x)
        IN  Completes("StationInfo", [w |-> w], g, StationInfoResult(g))

Client_BSS ==
    \E w \in WifiInterfaces, x \in Exchanges(nops + 1, "CMD_GET_SCAN", {"Dump"}, Bodies("CMD_GET_SCAN")) :
        LET g == get(inbox, "CMD_GET_SCAN", {"Dump"}, Some(w),
                     hardwareAddrEncoder(w.HardwareAddr), x)
        IN  Completes("BSS", [w |-> w], g, BSSResult(g))

Client_SetFrequency ==
    \E w \in WifiInterfaces, freq \in {2412},
       x \in Exchanges(nops + 1, "CMD_SET_WIPHY", {"Acknowledge"}, Bodies("CMD_SET_WIPHY")) :
        LET g == get(inbox, "CMD_SET_WIPHY", {"Acknowledge"}, Some(w), wiphyFreqEncoder(freq), x)
        IN  Completes("SetFrequency", [w |-> w, freq |-> freq], g, Returns(g.err, <<>>))

Client_SetChannelWidth ==
    \E w \in WifiInterfaces, width \in {1},
       x \in Exchanges(nops + 1, "CMD_SET_WIPHY", {}, Bodies("CMD_SET_WIPHY")) :
        LET g == get(inbox, "CMD_SET_WIPHY", {}, Some(w), channelWidthEncoder(width), x)
        IN  Completes("SetChannelWidth", [w |-> w, width |-> width], g, Returns(g.err, <<>>))

Client_SetInterfaceType ==
    \E w \in WifiInterfaces, iftype \in {6},
       x \in Exchanges(nops + 1, "CMD_SET_INTERFACE", {"Acknowledge"}, Bodies("CMD_SET_INTERFACE")) :
        LET g == get(inbox, "CMD_SET_INTERFACE", {"Acknowledge"}, Some(w), iftypeEncoder(iftype), x)
        IN  Completes("SetInterfaceType", [w |-> w, iftype |-> iftype], g,
                      Returns(IF g.err # Nil THEN "SetInterfaceType: " \o g.err ELSE Nil, <<>>))

Client_Disconnect ==
    \E w \in WifiInterfaces, x \in Exchanges(nops + 1, "CMD_DISCONNECT", {}, Bodies("CMD_DISCONNECT")) :
        LET g == get(inbox, "CMD_DISCONNECT", {}, Some(w), <<>>, x)
        IN  Completes("Disconnect", [w |-> w], g, Returns(g.err, <<>>))

InitGet ==
    /\ op = "init"
    /\ arg = Nil
    /\ ret = Returns(Nil, <<>>)
    /\ Idle

NextGet ==
    \/ Client_StationInfo
    \/ Client_BSS
    \/ Client_SetFrequency
    \/ Client_SetChannelWidth
    \/ Client_SetInterfaceType
    \/ Client_Disconnect

SpecGet == InitGet /\ [][NextGet]_vars

\* the last step was a public operation of this client, and it returned
Returned == op # "init" /\ ~ret.blocked

\* C8 (as claimed): an operation whose send or whose receive failed returns
\* an error to its caller; a failed send in Client.get is never followed by a
\* successful return.
C8_TransportFailurePropagates ==
    (Returned /\ (last.sendErr \/ last.recvErr)) => ret.err # Nil

\* the messages genetlink makes of a batch of raw replies, one each
MsgsOf(batch) == [i \in 1..Len(batch) |-> Msg(batch[i].Data)]

\* C10 (as claimed): when the first raw reply an exchange read is a pure
\* acknowledgment, the messages the exchange hands to the operation are those
\* of the batch without the first; when a raw reply carries a genuine error,
\* the exchange fails and hands over no messages.
C10_AckStripped ==
    (Returned /\ last.batch # <<>>) =>
        /\ IsPureAck(last.batch[1]) => last.msgs = Tail(MsgsOf(last.batch))
        /\ (\E i \in 1..Len(last.batch) : IsKernelError(last.batch[i])) =>
               (last.err # Nil /\ last.msgs = <<>>)

----------------------------------------------------------------------------
(* SpecStation: Client.StationInfo on a fresh client, over every reply the  *)
(* kernel may give to the station dump.                                     *)

InitStation ==
    /\ op = "init"
    /\ arg \in [w : WifiInterfaces,
                x : Exchanges(1, "CMD_GET_STATION", {"Dump"}, StationBodies)]
    /\ ret = Returns(Nil, <<>>)
    /\ Idle

RunStationInfo ==
    /\ op = "init"
    /\ LET g == get(inbox, "CMD_GET_STATION", {"Dump"}, Some(arg.w),
                    hardwareAddrEncoder(arg.w.HardwareAddr), arg.x)
       IN  /\ op' = "StationInfo"
           /\ ret' = IF g.blocked THEN Blocked ELSE StationInfoResult(g)
           /\ inbox' = g.inbox
           /\ last' = g.trace
           /\ nops' = nops + 1
    /\ UNCHANGED <<arg, cerr, conn>>

NextStation == RunStationInfo

SpecStation == InitStation /\ [][NextStation]_vars

\* the payload unmarshals and holds no STA_INFO attribute
LacksStaInfo(data) ==
    ~data.Malformed /\ IndicesOf(data.Attrs, "ATTR_STA_INFO") = {}

\* the payload unmarshals and its first STA_INFO attribute does too
HoldsStaInfo(data) ==
    /\ ~data.Malformed
    /\ \E i \in IndicesOf(data.Attrs, "ATTR_STA_INFO") :
          /\ \A j \in IndicesOf(data.Attrs, "ATTR_STA_INFO") : i <= j
          /\ ~data.Attrs[i].Data.Malformed

\* the places of the dump where decoding meets a message without STA_INFO
\* after messages that all decoded
FirstLacking(msgs) ==
    {i \in 1..Len(msgs) : /\ LacksStaInfo(msgs[i].Data)
                          /\ \A j \in 1..(i - 1) : HoldsStaInfo(msgs[j].Data)}

\* the station dump was exchanged without a transport or kernel error
StationDumpRead == op = "StationInfo" /\ ~ret.blocked /\ last.err = Nil

----------------------------------------------------------------------------
(* The client that keeps its first error in a field (c.err): Send and Recv  *)
(* do nothing once it is set.  c is the client's state: its err field and   *)
(* what is queued on its connection.                                        *)

\* the channel-to-frequency table (wifi.go)
WifiChannel ==
    (1 :> 2412) @@ (2 :> 2417) @@ (3 :> 2422) @@ (4 :> 2427) @@ (5 :> 2432)
    @@ (6 :> 2437) @@ (7 :> 2442) @@ (8 :> 2447) @@ (9 :> 2452) @@ (10 :> 2457)
    @@ (11 :> 2462) @@ (12 :> 2467) @@ (13 :> 2472) @@ (14 :> 2484) @@ (36 :> 5180)
    @@ (38 :> 5190) @@ (40 :> 5200) @@ (42 :> 5210) @@ (44 :> 5220) @@ (46 :> 5230)
    @@ (48 :> 5240) @@ (50 :> 5250) @@ (52 :> 5260) @@ (54 :> 5270) @@ (56 :> 5280)
    @@ (58 :> 5290) @@ (60 :> 5300) @@ (62 :> 5310) @@ (64 :> 5320) @@ (100 :> 5500)
    @@ (102 :> 5510) @@ (104 :> 5520) @@ (106 :> 5530) @@ (108 :> 5540) @@ (110 :> 5550)
    @@ (112 :> 5560) @@ (114 :> 5570) @@ (116 :> 5580) @@ (118 :> 5590) @@ (120 :> 5600)
    @@ (122 :> 5610) @@ (124 :> 5620) @@ (126 :> 5630) @@ (128 :> 5640) @@ (130 :> 5650)
    @@ (132 :> 5660) @@ (134 :> 5670) @@ (136 :> 5680) @@ (138 :> 5690) @@ (140 :> 5700)
    @@ (149 :> 5745) @@ (151 :> 5755) @@ (153 :> 5765) @@ (155 :> 5775) @@ (157 :> 5785)
    @@ (159 :> 5795) @@ (161 :> 5805) @@ (165 :> 5825)

\* a lookup that finds every channel (0 for those the table lacks)
WifiChannelLookupAny(channel) ==
    [ch |-> IF channel \in DOMAIN WifiChannel THEN WifiChannel[channel] ELSE 0, ok |-> TRUE]

\* a lookup that gives the channel number back as the frequency
WifiChannelLookupIdentity(channel) ==
    [ch |-> channel, ok |-> channel \in DOMAIN WifiChannel]

\* ch, ok := WifiChannel[channel]
WifiChannelLookup(channel) ==
    IF channel \in DOMAIN WifiChannel
    THEN [ch |-> WifiChannel[channel], ok |-> TRUE]
    ELSE [ch |-> 0, ok |-> FALSE]

newGenlMessage(cmd) == [Header |-> [Command |-> cmd, Version |-> 1], Data |-> <<>>]

\* the Append...Attribute functions of the encoder, as the attributes they add
AppendInterfaceIndexAttribute(ifindex) == <<Attr("ATTR_IFINDEX", Leaf(PutUint32(ifindex)))>>
AppendWiphyFrequencyAttribute(freq) == <<Attr("ATTR_WIPHY_FREQ", Leaf(PutUint32(freq)))>>
AppendInterfaceTypeAttribute(iftype) == <<Attr("ATTR_IFTYPE", Leaf(PutUint32(iftype)))>>

\* Client.Send: nothing once c.err is set; else the send's error becomes c.err
Send(c, msg, flags, x) ==
    IF c.err # Nil THEN [c |-> c, sent |-> <<>>, sendErr |-> FALSE]
    ELSE LET s == ConnSend(c.inbox, msg, flags, x)
         IN  [c |-> [err |-> s.err, inbox |-> s.inbox], sent |-> s.sent, sendErr |-> s.err # Nil]

SendRequest(c, msg, x) == Send(c, msg, {"Request"}, x)

\* Client.Recv: nothing once c.err is set; else one Receive, whose error
\* becomes c.err
Recv(c, x) ==
    IF c.err # Nil
    THEN [c |-> c, msgs |-> <<>>, recvs |-> 0, batch |-> <<>>, recvErr |-> FALSE,
          blocked |-> FALSE]
    ELSE LET r == ConnReceive(c.inbox, x)
         IN  [c |-> [err |-> r.err, inbox |-> r.inbox],
              msgs |-> IF r.err # Nil THEN <<>> ELSE r.msgs,
              recvs |-> 1, batch |-> r.batch, recvErr |-> r.err # Nil, blocked |-> r.blocked]

\* the zero value of WifiInterface (wifi.go)
ZeroWifiInterface ==
    [Index |-> 0, Name |-> <<>>, HardwareAddr |-> <<>>, Phy |-> 0, Device |-> 0,
     Type |-> 0, Frequency |-> 0]

\* nlenc.String: the bytes up to the terminating NUL
RECURSIVE nlencString(_)
nlencString(b) ==
    IF b = <<>> \/ Head(b) = 0 THEN <<>> ELSE <<Head(b)>> \o nlencString(Tail(b))

\* the switch of parseGetInterfaceResponse on one attribute
WifiStep(wifi, a) ==
    CASE a.Type = "ATTR_IFINDEX" -> [wifi EXCEPT !.Index = nlencUint32(a.Data.Raw)]
      [] a.Type = "ATTR_IFNAME" -> [wifi EXCEPT !.Name = nlencString(a.Data.Raw)]
      [] a.Type = "ATTR_MAC" -> [wifi EXCEPT !.HardwareAddr = a.Data.Raw]
      [] a.Type = "ATTR_WIPHY" -> [wifi EXCEPT !.Phy = nlencUint32(a.Data.Raw)]
      [] a.Type = "ATTR_IFTYPE" -> [wifi EXCEPT !.Type = nlencUint32(a.Data.Raw)]
      [] a.Type = "ATTR_WDEV" -> [wifi EXCEPT !.Device = nlencUint64(a.Data.Raw)]
      [] a.Type = "ATTR_WIPHY_FREQ" -> [wifi EXCEPT !.Frequency = nlencUint32(a.Data.Raw)]
      [] OTHER -> wifi

RECURSIVE WifiFold(_, _)
WifiFold(wifi, attrs) ==
    IF attrs = <<>> THEN wifi ELSE WifiFold(WifiStep(wifi, Head(attrs)), Tail(attrs))

RECURSIVE WifisFrom(_, _, _)
WifisFrom(c, msgs, wifis) ==
    IF msgs = <<>> THEN [c |-> c, wifis |-> wifis]
    ELSE LET u == UnmarshalAttributes(Head(msgs).Data)
         IN  IF u.err # Nil
             THEN [c |-> [c EXCEPT !.err = "parseGetInterfaceResponse: failed to unpack attributes"],
                   wifis |-> <<>>]
             ELSE WifisFrom(c, Tail(msgs), Append(wifis, WifiFold(ZeroWifiInterface, u.attrs)))

\* Client.parseGetInterfaceResponse: nothing once c.err is set
Client_parseGetInterfaceResponse(c, msgs) ==
    IF c.err # Nil THEN [c |-> c, wifis |-> <<>>] ELSE WifisFrom(c, msgs, <<>>)

\* an operation that ended in a run-time panic
Panicked == [blocked |-> FALSE, err |-> "panic: index out of range", val |-> <<>>]

\* what one call did on the transport: s the outcome of its Send, r of its Recv
TraceOf(s, r) ==
    [sends |-> s.sent, recvs |-> r.recvs, sendErr |-> s.sendErr, recvErr |-> r.recvErr,
     batch |-> r.batch, msgs |-> r.msgs, err |-> r.c.err]

\* the outcome of a Recv that was not called, with the client in state c
NoRecv(c) ==
    [c |-> c, msgs |-> <<>>, recvs |-> 0, batch |-> <<>>, recvErr |-> FALSE, blocked |-> FALSE]

\* the state after a public operation name(a) that left the client in state
\* c with transport trace tr and returns r
Finishes(name, a, c, tr, r) ==
    /\ nops < MaxOps
    /\ ret # Blocked
    /\ ret # Panicked
    /\ op' = name
    /\ arg' = a
    /\ ret' = r
    /\ cerr' = c.err
    /\ inbox' = c.inbox
    /\ last' = tr
    /\ nops' = nops + 1
    /\ UNCHANGED conn

\* the payloads of GET_INTERFACE replies here: a well-formed one and one that
\* does not unmarshal
ErrBodies == Bodies("CMD_GET_INTERFACE") \cup {MalformedData}

\* the channel numbers SetChannel is called with: in the table and not
ChannelInputs == {0, 6, 37, 165}

ErrClient_DumpInterfaces ==
    \E x \in Exchanges(nops + 1, "CMD_GET_INTERFACE", {"Dump"}, ErrBodies) :
        LET c0 == [err |-> cerr, inbox |-> inbox]
            s == Send(c0, newGenlMessage("CMD_GET_INTERFACE"), {"Request", "Dump"}, x)
            r == Recv(s.c, x)
            q == Client_parseGetInterfaceResponse(r.c, r.msgs)
        IN  Finishes("DumpInterfaces", [w |-> Nil], q.c, TraceOf(s, r),
                     IF r.blocked THEN Blocked ELSE Returns(q.c.err, q.wifis))

ErrClient_InterfaceById ==
    \E ifindex \in {1, 2}, x \in Exchanges(nops + 1, "CMD_GET_INTERFACE", {}, ErrBodies) :
        LET c0 == [err |-> cerr, inbox |-> inbox]
            msg == [newGenlMessage("CMD_GET_INTERFACE") EXCEPT
                        !.Data = AppendInterfaceIndexAttribute(ifindex)]
            s == SendRequest(c0, msg, x)
            r == Recv(s.c, x)
            q == Client_parseGetInterfaceResponse(r.c, r.msgs)
        IN  Finishes("InterfaceById", [ifindex |-> ifindex], q.c, TraceOf(s, r),
                     IF r.blocked THEN Blocked
                     ELSE IF q.c.err # Nil THEN Returns(q.c.err, <<>>)
                     ELSE IF q.wifis = <<>> THEN Panicked
                     ELSE Returns(Nil, <<q.wifis[1]>>))

ErrClient_SetChannel ==
    \E w \in WifiInterfaces, channel \in ChannelInputs,
       x \in Exchanges(nops + 1, "CMD_SET_WIPHY", {}, {}) :
        LET c0 == [err |-> cerr, inbox |-> inbox]
            l == WifiChannelLookup(channel)
            msg == [newGenlMessage("CMD_SET_WIPHY") EXCEPT
                        !.Data = AppendInterfaceIndexAttribute(w.Index)
                                 \o AppendWiphyFrequencyAttribute(l.ch)]
            s == SendRequest(c0, msg, x)
        IN  IF ~l.ok
            THEN Finishes("SetChannel", [w |-> w, channel |-> channel], c0, NoTrace,
                          Returns("SetChannel: invalid channel provided", <<>>))
            ELSE Finishes("SetChannel", [w |-> w, channel |-> channel], s.c,
                          TraceOf(s, NoRecv(s.c)), Returns(s.c.err, <<>>))

ErrClient_SetInterfaceType ==
    \E w \in WifiInterfaces, iftype \in {6},
       x \in Exchanges(nops + 1, "CMD_SET_INTERFACE", {}, {}) :
        LET c0 == [err |-> cerr, inbox |-> inbox]
            msg == [newGenlMessage("CMD_SET_INTERFACE") EXCEPT
                        !.Data = AppendInterfaceIndexAttribute(w.Index)
                                 \o AppendInterfaceTypeAttribute(iftype)]
            s == SendRequest(c0, msg, x)
        IN  Finishes("SetInterfaceType", [w |-> w, iftype |-> iftype], s.c,
                     TraceOf(s, NoRecv(s.c)), Returns(s.c.err, <<>>))

InitErr ==
    /\ op = "init"
    /\ arg = Nil
    /\ ret = Returns(Nil, <<>>)
    /\ Idle

NextErr ==
    \/ ErrClient_DumpInterfaces
    \/ ErrClient_InterfaceById
    \/ ErrClient_SetChannel
    \/ ErrClient_SetInterfaceType

SpecErr == InitErr /\ [][NextErr]_vars

\* C7: a SetChannel call with a channel number that is not a key of the
\* WifiChannel table returns an error, sends nothing and receives nothing,
\* and leaves the client's error field and its connection as they were.
C7_InvalidChannelNoSideEffects ==
    [][(op' = "SetChannel" /\ arg'.channel \notin DOMAIN WifiChannel) =>
           /\ ret' = Returns("SetChannel: invalid channel provided", <<>>)
           /\ last'.sends = <<>>
           /\ last'.recvs = 0
           /\ cerr' = cerr
           /\ inbox' = inbox]_vars

\* SetChannel(37) has returned its error after an earlier operation left a
\* reply queued on the connection, which is still there
C7_Witness ==
    /\ op = "SetChannel"
    /\ arg.channel = 37
    /\ 37 \notin DOMAIN WifiChannel
    /\ ret.err = "SetChannel: invalid channel provided"
    /\ last.sends = <<>>
    /\ last.recvs = 0
    /\ cerr = Nil
    /\ inbox # <<>>
    /\ nops = 2

\* C9 (as claimed): an operation that sent a request returns only after it
\* has received on the connection or the transport has reported an error.
C9_NoFireAndForget ==
    (Returned /\ last.sends # <<>>) =>
        (last.recvs > 0 \/ last.sendErr \/ last.recvErr)

----------------------------------------------------------------------------
(* SpecConnect: Client.Connect (client.go) on a fresh client, over every    *)
(* generated SSID and pre-shared key.                                       *)

\* longest generated SSID and pre-shared key
MaxKeyLen == 1

\* pbkdf2.Key with sha1.New, kept as its arguments: the derived key is a
\* function of exactly these
pbkdf2Key(password, salt, iter, keyLen) ==
    [kdf |-> "PBKDF2-HMAC-SHA1", password |-> password, salt |-> salt,
     iter |-> iter, keyLen |-> keyLen]

wpaPassphrase(ssid, psk) == pbkdf2Key(psk, ssid, 4096, 32)

\* an encoder that derives the PMK with the SSID as the passphrase
connectionAttrEncoderSwapped(ssid, psk) ==
    <<Attr("ATTR_SSID", Leaf(ssid))>>
    \o (IF psk # <<>>
        THEN <<Attr("ATTR_WPA_VERSIONS", Leaf(PutUint32(2))),
               Attr("ATTR_CIPHER_SUITE_GROUP", Leaf(PutUint32(1027076))),
               Attr("ATTR_CIPHER_SUITES_PAIRWISE", Leaf(PutUint32(1027076))),
               Attr("ATTR_AKM_SUITES", Leaf(PutUint32(1027074))),
               Attr("ATTR_WANT_1X_4WAY_HS", Leaf(<<>>)),
               Attr("ATTR_PMK", Leaf(wpaPassphrase(psk, ssid)))>>
        ELSE <<>>)
    \o <<Attr("ATTR_AUTH_TYPE", Leaf(PutUint32(0)))>>

\* connectionAttrEncoder: the attributes the returned function writes
\* (cipherSuites = 0xfac04, akmSuites = 0xfac02, WPA_VERSION_2 = 2,
\* AUTHTYPE_OPEN_SYSTEM = 0; a flag attribute has no payload)
connectionAttrEncoder(ssid, psk) ==
    <<Attr("ATTR_SSID", Leaf(ssid))>>
    \o (IF psk # <<>>
        THEN <<Attr("ATTR_WPA_VERSIONS", Leaf(PutUint32(2))),
               Attr("ATTR_CIPHER_SUITE_GROUP", Leaf(PutUint32(1027076))),
               Attr("ATTR_CIPHER_SUITES_PAIRWISE", Leaf(PutUint32(1027076))),
               Attr("ATTR_AKM_SUITES", Leaf(PutUint32(1027074))),
               Attr("ATTR_WANT_1X_4WAY_HS", Leaf(<<>>)),
               Attr("ATTR_PMK", Leaf(wpaPassphrase(ssid, psk)))>>
        ELSE <<>>)
    \o <<Attr("ATTR_AUTH_TYPE", Leaf(PutUint32(0)))>>

\* the generated SSIDs and keys, as byte strings
KeyStrings == SeqUpTo({97, 98}, MaxKeyLen)

InitConnect ==
    /\ op = "init"
    /\ arg \in [w : WifiInterfaces, ssid : KeyStrings, psk : KeyStrings,
                x : Exchanges(1, "CMD_CONNECT", {}, {})]
    /\ ret = Returns(Nil, <<>>)
    /\ Idle

RunConnect ==
    /\ op = "init"
    /\ LET g == get(inbox, "CMD_CONNECT", {}, Some(arg.w),
                    connectionAttrEncoder(arg.ssid, arg.psk), arg.x)
       IN  /\ op' = "Connect"
           /\ ret' = IF g.blocked THEN Blocked ELSE Returns(g.err, <<>>)
           /\ inbox' = g.inbox
           /\ last' = g.trace
           /\ nops' = nops + 1
    /\ UNCHANGED <<arg, cerr, conn>>

NextConnect == RunConnect

SpecConnect == InitConnect /\ [][NextConnect]_vars

\* the attributes of the request sent after the interface index
ConnectAttrs == Tail(last.sends[1].msg.Data)

TypesOf(attrs) == [i \in 1..Len(attrs) |-> attrs[i].Type]

PskTypes ==
    {"ATTR_WPA_VERSIONS", "ATTR_CIPHER_SUITE_GROUP", "ATTR_CIPHER_SUITES_PAIRWISE",
     "ATTR_AKM_SUITES", "ATTR_WANT_1X_4WAY_HS", "ATTR_PMK"}

\* C11: the attributes Connect writes after the interface index are, with
\* an empty psk, exactly SSID then AUTH_TYPE = open-system; with a non-empty
\* psk, SSID, then the six PSK-path attributes once each, the PMK being
\* PBKDF2(passphrase psk, salt ssid, 4096 iterations, 32 bytes), then
\* AUTH_TYPE = open-system.
C11_ConnectAttributes ==
    (op = "Connect" /\ last.sends # <<>>) =>
        LET d == ConnectAttrs
            n == Len(d)
        IN  /\ n >= 2
            /\ d[1] = Attr("ATTR_SSID", Leaf(arg.ssid))
            /\ d[n] = Attr("ATTR_AUTH_TYPE", Leaf(<<0, 0, 0, 0>>))
            /\ arg.psk = <<>> => n = 2
            /\ arg.psk # <<>> =>
                  /\ n = 8
                  /\ {d[i].Type : i \in 2..7} = PskTypes
                  /\ \A i \in 2..7 :
                        d[i].Type = "ATTR_PMK" =>
                           d[i].Data.Raw = [kdf |-> "PBKDF2-HMAC-SHA1", password |-> arg.psk,
                                            salt |-> arg.ssid, iter |-> 4096, keyLen |-> 32]

\* Connect with SSID "a" and key "b" has sent its eight attributes
C11_Witness ==
    /\ op = "Connect"
    /\ arg.ssid = <<97>>
    /\ arg.psk = <<98>>
    /\ last.sends # <<>>
    /\ Len(ConnectAttrs) = 8
    /\ ConnectAttrs[7].Type = "ATTR_PMK"

----------------------------------------------------------------------------
(* The set operations and Disconnect of client.go, under SpecGet. *)

\* C12 (as claimed): each of SetInterfaceType, SetFrequency and
\* SetChannelWidth performs exactly one exchange, and the request it sends
\* carries the flags request and acknowledge.
C12_SetOpsRequestAck ==
    (op \in {"SetInterfaceType", "SetFrequency", "SetChannelWidth"}) =>
        /\ last.recvs = 1
        /\ Len(last.sends) <= 1
        /\ \A i \in 1..Len(last.sends) : last.sends[i].flags = {"Request", "Acknowledge"}

----------------------------------------------------------------------------
(* SpecIfaces: Client.Interfaces and Client.InterfaceByName (client.go) on  *)
(* a fresh client, over every reply to the interface dump and every host    *)
(* interface table.                                                         *)

\* the zero value of InterfaceWlanConfig
ZeroInterfaceWlanConfig ==
    [Index |-> 0, Name |-> <<>>, HardwareAddr |-> <<>>, Phy |-> 0, Type |-> 0,
     Device |-> 0, Frequency |-> 0]

\* the switch of parseGetInterfaceResponse on one attribute
ConfigStep(config, a) ==
    CASE a.Type = "ATTR_IFINDEX" -> [config EXCEPT !.Index = nlencUint32(a.Data.Raw)]
      [] a.Type = "ATTR_IFNAME" -> [config EXCEPT !.Name = nlencString(a.Data.Raw)]
      [] a.Type = "ATTR_MAC" -> [config EXCEPT !.HardwareAddr = a.Data.Raw]
      [] a.Type = "ATTR_WIPHY" -> [config EXCEPT !.Phy = nlencUint32(a.Data.Raw)]
      [] a.Type = "ATTR_IFTYPE" -> [config EXCEPT !.Type = nlencUint32(a.Data.Raw)]
      [] a.Type = "ATTR_WDEV" -> [config EXCEPT !.Device = nlencUint64(a.Data.Raw)]
      [] a.Type = "ATTR_WIPHY_FREQ" -> [config EXCEPT !.Frequency = nlencUint32(a.Data.Raw)]
      [] OTHER -> config

RECURSIVE ConfigFold(_, _)
ConfigFold(config, attrs) ==
    IF attrs = <<>> THEN config ELSE ConfigFold(ConfigStep(config, Head(attrs)), Tail(attrs))

\* a decoder that leaves out the messages that do not unmarshal
RECURSIVE ConfigsFromSkipping(_, _)
ConfigsFromSkipping(msgs, configs) ==
    IF msgs = <<>> THEN [configs |-> configs, err |-> Nil]
    ELSE LET u == UnmarshalAttributes(Head(msgs).Data)
         IN  IF u.err # Nil
             THEN ConfigsFromSkipping(Tail(msgs), configs)
             ELSE ConfigsFromSkipping(Tail(msgs),
                                      Append(configs, ConfigFold(ZeroInterfaceWlanConfig, u.attrs)))

\* the loop of parseGetInterfaceResponse over the messages
RECURSIVE ConfigsFrom(_, _)
ConfigsFrom(msgs, configs) ==
    IF msgs = <<>> THEN [configs |-> configs, err |-> Nil]
    ELSE LET u == UnmarshalAttributes(Head(msgs).Data)
         IN  IF u.err # Nil
             THEN [configs |-> <<>>,
                   err |-> "parseGetInterfaceResponse: failed to unpack attributes"]
             ELSE ConfigsFrom(Tail(msgs),
                              Append(configs, ConfigFold(ZeroInterfaceWlanConfig, u.attrs)))

parseGetInterfaceResponse(msgs) == ConfigsFrom(msgs, <<>>)

\* the interface indexes and names of the host
IfIndexes == {1, 2}
IfNames == {"wlan0", "wlan1"}

\* the host's interface tables: which index has which name, Nil for none
HostTables == [IfIndexes -> IfNames \cup {Nil}]

\* net.InterfaceByIndex on host table host
netInterfaceByIndex(host, index) ==
    IF index \in DOMAIN host /\ host[index] # Nil
    THEN [ifi |-> [Index |-> index, Name |-> host[index], HardwareAddr |-> <<2, 0, 0, 0, 0, index>>],
          err |-> Nil]
    ELSE [ifi |-> Nil, err |-> "no such network interface"]

\* the loop of Client.Interfaces over the decoded configurations
RECURSIVE WifisOfConfigs(_, _, _)
WifisOfConfigs(host, configs, wifis) ==
    IF configs = <<>> THEN Returns(Nil, wifis)
    ELSE LET n == netInterfaceByIndex(host, Head(configs).Index)
         IN  IF n.err # Nil
             THEN Returns("Interfaces: failed to find interface", <<>>)
             ELSE WifisOfConfigs(host, Tail(configs), Append(wifis, n.ifi))

\* what Client.Interfaces makes of the outcome g of its get
InterfacesResult(host, g) ==
    IF g.err # Nil THEN Returns("Interfaces: failed to get interfaces", <<>>)
    ELSE LET r == parseGetInterfaceResponse(g.msgs)
         IN  IF r.err # Nil THEN Returns("Interfaces: failed to parse response messages", <<>>)
             ELSE WifisOfConfigs(host, r.configs, <<>>)

\* a scan that returns the last interface of that name
RECURSIVE ScanByNameLast(_, _)
ScanByNameLast(interfaces, name) ==
    IF interfaces = <<>> THEN Returns(Nil, None)
    ELSE IF interfaces[Len(interfaces)].Name = name
    THEN Returns(Nil, Some(interfaces[Len(interfaces)]))
    ELSE ScanByNameLast(SubSeq(interfaces, 1, Len(interfaces) - 1), name)

\* the loop of Client.InterfaceByName: the first interface of that name, or
\* nil with a nil error
RECURSIVE ScanByName(_, _)
ScanByName(interfaces, name) ==
    IF interfaces = <<>> THEN Returns(Nil, None)
    ELSE IF Head(interfaces).Name = name THEN Returns(Nil, Some(Head(interfaces)))
    ELSE ScanByName(Tail(interfaces), name)

\* what Client.InterfaceByName makes of the result r of Interfaces
InterfaceByNameResult(r, name) ==
    IF r.err # Nil THEN Returns("InterfaceByName: " \o r.err, None)
    ELSE ScanByName(r.val, name)

\* payloads of interface-dump messages: one per host index, one without an
\* index, and one that does not unmarshal
IfaceBodies ==
    { NestedData(<<Attr("ATTR_IFINDEX", Leaf(PutUint32(i))),
                   Attr("ATTR_IFNAME", Leaf(<<119, 0>>))>>) : i \in IfIndexes }
    \cup { NestedData(<<Attr("ATTR_IFNAME", Leaf(<<119, 0>>))>>), MalformedData }

InitIfaces ==
    /\ op = "init"
    /\ arg \in [name : IfNames, host : HostTables,
                x : Exchanges(1, "CMD_GET_INTERFACE", {"Dump"}, IfaceBodies)]
    /\ ret = Returns(Nil, <<>>)
    /\ Idle

\* the state after operation name, whose get had outcome g and which returns r
Ran(name, g, r) ==
    /\ op' = name
    /\ ret' = IF g.blocked THEN Blocked ELSE r
    /\ inbox' = g.inbox
    /\ last' = g.trace
    /\ nops' = nops + 1
    /\ UNCHANGED <<arg, cerr, conn>>

RunInterfaces ==
    /\ op = "init"
    /\ LET g == get(inbox, "CMD_GET_INTERFACE", {"Dump"}, None, <<>>, arg.x)
       IN  Ran("Interfaces", g, InterfacesResult(arg.host, g))

RunInterfaceByName ==
    /\ op = "init"
    /\ LET g == get(inbox, "CMD_GET_INTERFACE", {"Dump"}, None, <<>>, arg.x)
       IN  Ran("InterfaceByName", g,
               InterfaceByNameResult(InterfacesResult(arg.host, g), arg.name))

NextIfaces ==
    \/ RunInterfaces
    \/ RunInterfaceByName

SpecIfaces == InitIfaces /\ [][NextIfaces]_vars

\* the index a dump message carries (0 when it carries none)
IndexOf(msg) ==
    IF IndicesOf(msg.Data.Attrs, "ATTR_IFINDEX") = {} THEN 0
    ELSE LET i == CHOOSE i \in IndicesOf(msg.Data.Attrs, "ATTR_IFINDEX") : TRUE
         IN  nlencUint32(msg.Data.Attrs[i].Data.Raw)

\* the dump was exchanged without error, every message unmarshals and
\* carries the index of an interface of the host
DumpSucceeded ==
    /\ ~ret.blocked
    /\ last.err = Nil
    /\ \A i \in 1..Len(last.msgs) :
          /\ ~last.msgs[i].Data.Malformed
          /\ IndexOf(last.msgs[i]) \in IfIndexes
          /\ arg.host[IndexOf(last.msgs[i])] # Nil

\* the places of the dump whose interface has the name asked for
Named == {i \in 1..Len(last.msgs) : arg.host[IndexOf(last.msgs[i])] = arg.name}

\* C13: after a successful interface dump, InterfaceByName returns no
\* interface and no error when no dumped interface has the name (neither a
\* success, which carries an interface, nor a failure, which carries an
\* error), and the first interface of that name in dump order otherwise; a
\* dump that fails to decode gives an error.
C13_InterfaceByName ==
    (op = "InterfaceByName" /\ ~ret.blocked) =>
        /\ (DumpSucceeded /\ Named = {}) => ret = Returns(Nil, None)
        /\ (DumpSucceeded /\ Named # {}) =>
              /\ ret.err = Nil
              /\ \A i \in Named :
                    (\A j \in Named : i <= j) =>
                       /\ ret.val # None
                       /\ ret.val[1].Index = IndexOf(last.msgs[i])
                       /\ ret.val[1].Name = arg.name
        /\ (last.err = Nil /\ \E i \in 1..Len(last.msgs) : last.msgs[i].Data.Malformed) =>
              (ret.err # Nil /\ ret.val = None)

\* a dump of interfaces 2 and 1, both named wlan0 on the host, has been
\* searched for wlan0 and interface 2 returned
C13_Witness ==
    /\ op = "InterfaceByName"
    /\ DumpSucceeded
    /\ Len(last.msgs) = 2
    /\ IndexOf(last.msgs[1]) = 2
    /\ IndexOf(last.msgs[2]) = 1
    /\ Named = {1, 2}
    /\ ret.val # None
    /\ ret.val[1].Index = 2

----------------------------------------------------------------------------
(* Client.StationInfo, under SpecStation. *)

\* C14: when the station dump succeeds with no message, StationInfo returns
\* os.ErrNotExist and no records; when it succeeds with n > 0 messages that
\* all decode, it returns n records and no error, the i-th record decoded
\* from the i-th message.
C14_StationInfoRecords ==
    StationDumpRead =>
        LET n == Len(last.msgs)
        IN  /\ n = 0 => ret = Returns(ErrNotExist, <<>>)
            /\ (n > 0 /\ \A i \in 1..n : HoldsStaInfo(last.msgs[i].Data)) =>
                  /\ ret.err = Nil
                  /\ Len(ret.val) = n
                  /\ \A i \in 1..n :
                        /\ ret.val[i] = parseStationInfo(last.msgs[i].Data).info[1]
                        /\ ret.val[i].ReceivedBytes = 1 <=> last.msgs[i].Data = StationGood

\* a dump of two different stations, both decoded, has been returned as two
\* records in dump order
C14_Witness ==
    /\ StationDumpRead
    /\ Len(last.msgs) = 2
    /\ last.msgs[1].Data = StationGood
    /\ last.msgs[2].Data # StationGood
    /\ HoldsStaInfo(last.msgs[2].Data)
    /\ ret.err = Nil
    /\ Len(ret.val) = 2
    /\ ret.val[1].ReceivedBytes = 1
    /\ ret.val[2].TransmittedBytes = 2

----------------------------------------------------------------------------
(* SpecMsg: building a command message from a command code and a list of    *)
(* typed attributes (attributes.go), at the level of bytes.                 *)

\* most attributes in a generated list
MaxMsgAttrs == 2

\* the zero bytes that pad a payload of n bytes to a multiple of four
RECURSIVE Zeros(_)
Zeros(n) == IF n = 0 THEN <<>> ELSE <<0>> \o Zeros(n - 1)

nlaAlign(n) == ((n + 3) \div 4) * 4

\* the record netlink.AttributeEncoder writes for one attribute: length
\* (header included, padding not), type, payload, padding
nlaRecord(typ, data) ==
    PutUint16(4 + Len(data)) \o PutUint16(typ) \o data
    \o Zeros(nlaAlign(Len(data)) - Len(data))

\* an attribute of a value type: Attribute[T]{typ, val}
Attribute(kind, typ, val) == [kind |-> kind, typ |-> typ, val |-> val]

\* an encoding that writes a uint32 value in two bytes
EncodeAttributeNarrow(a) ==
    CASE a.kind = "uint32" -> nlaRecord(a.typ, PutUint16(a.val))
      [] a.kind = "bytes" -> nlaRecord(a.typ, a.val)
      [] OTHER -> <<>>

\* Attribute.EncodeAttribute: the type switch on the value (a flag is
\* written only when true; a value of another type writes nothing)
EncodeAttribute(a) ==
    CASE a.kind = "uint8" -> nlaRecord(a.typ, <<a.val % 256>>)
      [] a.kind = "uint16" -> nlaRecord(a.typ, PutUint16(a.val))
      [] a.kind = "uint32" -> nlaRecord(a.typ, PutUint32(a.val))
      [] a.kind = "uint64" -> nlaRecord(a.typ, PutUint64(a.val))
      [] a.kind = "string" -> nlaRecord(a.typ, a.val \o <<0>>)
      [] a.kind = "bytes" -> nlaRecord(a.typ, a.val)
      [] a.kind = "bool" -> IF a.val THEN nlaRecord(a.typ, <<>>) ELSE <<>>
      [] OTHER -> <<>>

RECURSIVE EncodeAll(_)
EncodeAll(attrs) ==
    IF attrs = <<>> THEN <<>> ELSE EncodeAttribute(Head(attrs)) \o EncodeAll(Tail(attrs))

\* NewNl80211Message(cmd, attrs): header {version 1, command}, payload the
\* attributes encoded in list order (nil and the empty list alike)
NewNl80211Message(cmd, attrs) ==
    [Header |-> [Version |-> 1, Command |-> cmd], Data |-> EncodeAll(attrs)]

\* the generated attributes: uint32 ones (a type and a value that need
\* their second byte among them) and byte strings of lengths 0, 2 and 4
MsgAttrPool ==
    { Attribute("uint32", t, v) : t \in {3, 38, 300}, v \in {3, 11, 2437} }
    \cup { Attribute("bytes", 6, b) : b \in {<<>>, <<1, 2>>, <<1, 2, 3, 4>>} }

InitMsg ==
    /\ op = "init"
    /\ arg \in [cmd : {2, 5, 6}, attrs : SeqUpTo(MsgAttrPool, MaxMsgAttrs)]
    /\ ret = Nil
    /\ Idle

RunNewNl80211Message ==
    /\ op = "init"
    /\ op' = "NewNl80211Message"
    /\ ret' = NewNl80211Message(arg.cmd, arg.attrs)
    /\ UNCHANGED <<arg, cerr, inbox, last, nops, conn>>

NextMsg == RunNewNl80211Message

SpecMsg == InitMsg /\ [][NextMsg]_vars

\* the offsets at which the records of the first k attributes end, when the
\* payload b is read as records of the declared lengths, padded to four
RECURSIVE RecordEnd(_, _)
RecordEnd(b, k) ==
    IF k = 0 THEN 0
    ELSE LET s == RecordEnd(b, k - 1)
         IN  IF s < 0 \/ s + 4 > Len(b) THEN -1
             ELSE LET l == b[s + 1] + 256 * b[s + 2]
                  IN  IF l < 4 \/ s + nlaAlign(l) > Len(b) THEN -1 ELSE s + nlaAlign(l)

----------------------------------------------------------------------------
(* The client with the err field, under SpecErr. *)

\* the last step was an operation that got past its argument check
Exchanged ==
    /\ op \in {"DumpInterfaces", "InterfaceById", "SetChannel", "SetInterfaceType"}
    /\ ~(op = "SetChannel" /\ arg.channel \notin DOMAIN WifiChannel)

\* C16 (as claimed): whatever earlier operations did, an operation puts its
\* request to the transport (the send is made, or the transport fails it),
\* and when its own send succeeded and it returns, without a receive step or
\* with one that read messages, it returns without error unless those
\* messages fail to decode.
C16_StatelessRoundTrip ==
    Exchanged =>
        /\ last.sends # <<>> \/ last.sendErr
        /\ (last.sends # <<>> /\ ~ret.blocked /\ ~last.recvErr
            /\ \A i \in 1..Len(last.msgs) : ~last.msgs[i].Data.Malformed) =>
               ret.err = Nil

----------------------------------------------------------------------------
(* SpecDump: the dump-based operations (Interfaces, BSS and StationInfo of  *)
(* client.go, DumpInterfaces of the client with the err field), each on a   *)
(* fresh client, over replies that mix decodable and undecodable messages.  *)

\* payloads of scan-dump messages: a BSS with a status, one without, a BSS
\* attribute that does not unmarshal, and a message that does not unmarshal
ScanBodies ==
    { NestedData(<<Attr("ATTR_BSS",
                        NestedData(<<Attr("BSS_STATUS", Leaf(PutUint32(1))),
                                     Attr("BSS_FREQUENCY", Leaf(PutUint32(2437)))>>))>>),
      NestedData(<<Attr("ATTR_BSS",
                        NestedData(<<Attr("BSS_FREQUENCY", Leaf(PutUint32(5180)))>>))>>),
      NestedData(<<Attr("ATTR_BSS", MalformedData)>>),
      MalformedData }

\* a host on which every dumped index is an interface
FullHost == [i \in IfIndexes |-> IF i = 1 THEN "wlan0" ELSE "wlan1"]

DumpCall(opn, cmd, bodies) ==
    [opn : {opn}, w : {w \in WifiInterfaces : w.Index = 1}, host : {FullHost},
     x : Exchanges(1, cmd, {"Dump"}, bodies)]

InitDump ==
    /\ op = "init"
    /\ arg \in DumpCall("Interfaces", "CMD_GET_INTERFACE", IfaceBodies)
               \cup DumpCall("DumpInterfaces", "CMD_GET_INTERFACE", IfaceBodies)
               \cup DumpCall("BSS", "CMD_GET_SCAN", ScanBodies)
               \cup DumpCall("StationInfo", "CMD_GET_STATION", StationBodies)
    /\ ret = Returns(Nil, <<>>)
    /\ Idle

Dump_Interfaces ==
    /\ op = "init" /\ arg.opn = "Interfaces"
    /\ LET g == get(inbox, "CMD_GET_INTERFACE", {"Dump"}, None, <<>>, arg.x)
       IN  Ran("Interfaces", g, InterfacesResult(arg.host, g))

Dump_BSS ==
    /\ op = "init" /\ arg.opn = "BSS"
    /\ LET g == get(inbox, "CMD_GET_SCAN", {"Dump"}, Some(arg.w),
                    hardwareAddrEncoder(arg.w.HardwareAddr), arg.x)
       IN  Ran("BSS", g, BSSResult(g))

Dump_StationInfo ==
    /\ op = "init" /\ arg.opn = "StationInfo"
    /\ LET g == get(inbox, "CMD_GET_STATION", {"Dump"}, Some(arg.w),
                    hardwareAddrEncoder(arg.w.HardwareAddr), arg.x)
       IN  Ran("StationInfo", g, StationInfoResult(g))

Dump_DumpInterfaces ==
    /\ op = "init" /\ arg.opn = "DumpInterfaces"
    /\ LET c0 == [err |-> cerr, inbox |-> inbox]
           s == Send(c0, newGenlMessage("CMD_GET_INTERFACE"), {"Request", "Dump"}, arg.x)
           r == Recv(s.c, arg.x)
           q == Client_parseGetInterfaceResponse(r.c, r.msgs)
       IN  /\ op' = "DumpInterfaces"
           /\ ret' = IF r.blocked THEN Blocked ELSE Returns(q.c.err, q.wifis)
           /\ cerr' = q.c.err
           /\ inbox' = q.c.inbox
           /\ last' = TraceOf(s, r)
           /\ nops' = nops + 1
           /\ UNCHANGED <<arg, conn>>

NextDump ==
    \/ Dump_Interfaces
    \/ Dump_BSS
    \/ Dump_StationInfo
    \/ Dump_DumpInterfaces

SpecDump == InitDump /\ [][NextDump]_vars

\* a scan message that parseBSS fails on when it reads it
ScanFails(d) ==
    \/ d.Malformed
    \/ \E i \in IndicesOf(d.Attrs, "ATTR_BSS") : d.Attrs[i].Data.Malformed

\* a scan message that holds a BSS with a status
ScanHoldsStatus(d) ==
    /\ ~ScanFails(d)
    /\ \E i \in IndicesOf(d.Attrs, "ATTR_BSS") :
          IndicesOf(d.Attrs[i].Data.Attrs, "BSS_STATUS") # {}

\* message d of the reply to operation opn fails to decode
Undecodable(opn, d) ==
    CASE opn = "BSS" -> ScanFails(d)
      [] opn = "StationInfo" -> ~HoldsStaInfo(d)
      [] OTHER -> d.Malformed

\* a dump operation returned after an exchange without error, and message i
\* of the reply fails to decode
DumpReadWithBad(i) ==
    /\ op \in {"Interfaces", "DumpInterfaces", "BSS", "StationInfo"}
    /\ ~ret.blocked
    /\ ~last.sendErr /\ ~last.recvErr
    /\ i \in 1..Len(last.msgs)
    /\ Undecodable(op, last.msgs[i].Data)

----------------------------------------------------------------------------
(* SpecNew: NewClient of client.go and of the client with the err field,    *)
(* over a dial that succeeds or fails and a family lookup that resolves     *)
(* nl80211 or does not.                                                     *)

\* the ids and versions GetFamily may resolve nl80211 to
FamilyIDs == 16..39
Families == [ID : FamilyIDs, Version : {0, 1}]

\* a constructor that leaves the connection open when the lookup fails
NewClientLeaking(dialOK, family) ==
    IF ~dialOK
    THEN [conn |-> "none", ret |-> Returns("NewClient: failed to create generic netlink connection", <<>>)]
    ELSE IF family = None
    THEN [conn |-> "open", ret |-> Returns("initClient: failed to get nl80211 family id", <<>>)]
    ELSE [conn |-> "open",
          ret |-> Returns(Nil, <<[c |-> "conn", familyID |-> family[1].ID,
                                  familyVersion |-> family[1].Version]>>)]

\* NewClient of client.go: the connection it leaves and what it returns
NewClient(dialOK, family) ==
    IF ~dialOK
    THEN [conn |-> "none", ret |-> Returns("NewClient: failed to create generic netlink connection", <<>>)]
    ELSE IF family = None
    THEN [conn |-> "closed", ret |-> Returns("initClient: failed to get nl80211 family id", <<>>)]
    ELSE [conn |-> "open",
          ret |-> Returns(Nil, <<[c |-> "conn", familyID |-> family[1].ID,
                                  familyVersion |-> family[1].Version]>>)]

\* NewClient of the client with the err field
NewErrClient(dialOK, family) ==
    IF ~dialOK
    THEN [conn |-> "none", ret |-> Returns("failed to open generic netlink connection", <<>>)]
    ELSE IF family = None
    THEN [conn |-> "closed", ret |-> Returns("failed to get nl80211 netlink family ID", <<>>)]
    ELSE [conn |-> "open",
          ret |-> Returns(Nil, <<[c |-> "conn", familyID |-> family[1].ID, err |-> Nil]>>)]

InitNew ==
    /\ op = "init"
    /\ arg \in [dialOK : BOOLEAN, family : {None} \cup {Some(f) : f \in Families}]
    /\ ret = Returns(Nil, <<>>)
    /\ cerr = Nil /\ inbox = <<>> /\ last = NoTrace /\ nops = 0
    /\ conn = "none"

Constructs(name, out) ==
    /\ op = "init"
    /\ op' = name
    /\ ret' = out.ret
    /\ conn' = out.conn
    /\ UNCHANGED <<arg, cerr, inbox, last, nops>>

RunNewClient == Constructs("NewClient", NewClient(arg.dialOK, arg.family))

RunNewErrClient == Constructs("NewErrClient", NewErrClient(arg.dialOK, arg.family))

NextNew ==
    \/ RunNewClient
    \/ RunNewErrClient

SpecNew == InitNew /\ [][NextNew]_vars

\* C18: when the connection was dialed and the nl80211 family cannot be
\* resolved, NewClient returns an error and no client and the connection is
\* closed; when it succeeds, the client it returns holds the connection,
\* which is open, and the resolved family id.
C18_NewClient ==
    (op \in {"NewClient", "NewErrClient"} /\ arg.dialOK) =>
        /\ arg.family = None => (ret.err # Nil /\ ret.val = <<>> /\ conn = "closed")
        /\ arg.family # None =>
              /\ ret.err = Nil
              /\ Len(ret.val) = 1
              /\ ret.val[1].c = "conn"
              /\ ret.val[1].familyID = arg.family[1].ID
              /\ conn = "open"

\* NewClient of client.go has failed on the family lookup and closed the
\* connection it had dialed
C18_Witness ==
    /\ op = "NewClient"
    /\ arg.dialOK
    /\ arg.family = None
    /\ ret.err # Nil
    /\ ret.val = <<>>
    /\ conn = "closed"

----------------------------------------------------------------------------
(* Disconnect (client.go, under SpecGet) and SetChannel with a channel of   *)
(* the table (the client with the err field, under SpecErr).                *)

\* C19: Disconnect puts one request to the transport; the request sent is a
\* DISCONNECT message whose payload is one attribute, the interface index of
\* the interface, and nothing else.
C19_DisconnectRequest ==
    (op = "Disconnect") =>
        /\ last.sendErr <=> last.sends = <<>>
        /\ Len(last.sends) <= 1
        /\ \A i \in 1..Len(last.sends) :
              /\ last.sends[i].msg.Header.Command = "CMD_DISCONNECT"
              /\ Len(last.sends[i].msg.Data) = 1
              /\ last.sends[i].msg.Data[1].Type = "ATTR_IFINDEX"
              /\ last.sends[i].msg.Data[1].Data.Raw = <<arg.w.Index, 0, 0, 0>>

\* Disconnect of the interface with a hardware address has sent its request
C19_Witness ==
    /\ op = "Disconnect"
    /\ arg.w.HardwareAddr # <<>>
    /\ Len(last.sends) = 1
    /\ last.sends[1].msg.Data = <<Attr("ATTR_IFINDEX", Leaf(<<1, 0, 0, 0>>))>>

\* the little-endian bytes of the frequencies of the channels generated
FreqBytes(channel) ==
    CASE channel = 6 -> <<133, 9, 0, 0>>
      [] channel = 165 -> <<193, 22, 0, 0>>
      [] OTHER -> PutUint32(WifiChannel[channel])

\* C20: on a client whose err field is clear, SetChannel with a channel of
\* the table puts one request to the transport: a SET_WIPHY message whose
\* payload is the interface index followed by WIPHY_FREQ = WifiChannel[c]
\* (2437 for channel 6); it returns success when the send succeeds (and the
\* send's error when it fails).
C20_SetChannelRequest ==
    [][(op' = "SetChannel" /\ arg'.channel \in DOMAIN WifiChannel /\ cerr = Nil) =>
           \/ last'.sendErr /\ last'.sends = <<>> /\ ret'.err # Nil
           \/ /\ ~last'.sendErr
              /\ Len(last'.sends) = 1
              /\ last'.sends[1].msg.Header = [Command |-> "CMD_SET_WIPHY", Version |-> 1]
              /\ last'.sends[1].msg.Data =
                    <<Attr("ATTR_IFINDEX", Leaf(<<arg'.w.Index, 0, 0, 0>>)),
                      Attr("ATTR_WIPHY_FREQ", Leaf(FreqBytes(arg'.channel)))>>
              /\ ret' = Returns(Nil, <<>>)]_vars

\* SetChannel(6) has sent frequency 2437 and returned success
C20_Witness ==
    /\ op = "SetChannel"
    /\ arg.channel = 6
    /\ Len(last.sends) = 1
    /\ last.sends[1].msg.Data[2] = Attr("ATTR_WIPHY_FREQ", Leaf(<<133, 9, 0, 0>>))
    /\ ret = Returns(Nil, <<>>)

----------------------------------------------------------------------------
(* Attribute order in parseStationInfo, under SpecStation. *)

\* the greatest place of an attribute of type typ in attrs (0 when none)
LastIndexOf(attrs, typ) ==
    IF IndicesOf(attrs, typ) = {} THEN 0
    ELSE CHOOSE i \in IndicesOf(attrs, typ) : \A j \in IndicesOf(attrs, typ) : j <= i

\* C21 (as claimed, for parseStationInfo): in every record StationInfo
\* returns, the hardware address is the one carried by the last MAC
\* attribute of the record's message, wherever it stands relative to the
\* STA_INFO attribute.
C21_LastAttributeWins ==
    (StationDumpRead /\ ret.err = Nil) =>
        \A i \in 1..Len(ret.val) :
            LET attrs == last.msgs[i].Data.Attrs
                k == LastIndexOf(attrs, "ATTR_MAC")
            IN  k > 0 => ret.val[i].HardwareAddr = attrs[k].Data.Raw

----------------------------------------------------------------------------
(* Replies and requests of the client with the err field, under SpecErr. *)

\* C22 (as claimed): as long as no receive has failed in the transport,
\* every reply an operation reads is a reply to the request this operation
\* sent, and an operation that returns leaves no unread reply on the
\* connection.
C22_RepliesMatchRequests ==
    (op # "init" /\ ~ret.blocked /\ cerr # "receive failed") =>
        /\ \A i \in 1..Len(last.batch) : last.batch[i].req = nops
        /\ inbox = <<>>

----------------------------------------------------------------------------
(* SpecConfig: the single-interface queries, each on a fresh client:        *)
(* InterfaceWlanConfig and the three getters built on it (client.go), and   *)
(* InterfaceById (the client with the err field).                           *)

\* what Client.InterfaceWlanConfig makes of the outcome g of its get:
\* wlan_configs[0] panics on an empty list
InterfaceWlanConfigResult(g) ==
    IF g.err # Nil THEN Returns("InterfaceWlanConfig: failed to get interface", None)
    ELSE LET r == parseGetInterfaceResponse(g.msgs)
         IN  IF r.err # Nil
             THEN Returns("InterfaceWlanConfig: failed to parse response messages", None)
             ELSE IF r.configs = <<>> THEN Panicked
             ELSE Returns(Nil, Some(r.configs[1]))

\* InterfaceFrequency, InterfaceType and InterfacePhy: field f of the
\* configuration c returned by InterfaceWlanConfig, or -1 and its error
ConfigField(name, c, f) ==
    IF c = Panicked THEN Panicked
    ELSE IF c.err # Nil THEN Returns(name \o ": " \o c.err, Some(-1))
    ELSE Returns(Nil, Some(c.val[1][f]))

\* the get of InterfaceWlanConfig
ConfigGet(w, x) ==
    get(inbox, "CMD_GET_INTERFACE", {}, Some(w), ifindexEncoder(w.Index), x)

InitConfig ==
    /\ op = "init"
    /\ arg \in [w : WifiInterfaces, x : Exchanges(1, "CMD_GET_INTERFACE", {}, IfaceBodies)]
    /\ ret = Returns(Nil, <<>>)
    /\ Idle

RunInterfaceWlanConfig ==
    /\ op = "init"
    /\ LET g == ConfigGet(arg.w, arg.x)
       IN  Ran("InterfaceWlanConfig", g, InterfaceWlanConfigResult(g))

RunInterfaceFrequency ==
    /\ op = "init"
    /\ LET g == ConfigGet(arg.w, arg.x)
       IN  Ran("InterfaceFrequency", g,
               ConfigField("InterfaceFrequency", InterfaceWlanConfigResult(g), "Frequency"))

RunInterfaceType ==
    /\ op = "init"
    /\ LET g == ConfigGet(arg.w, arg.x)
       IN  Ran("InterfaceType", g,
               ConfigField("InterfaceType", InterfaceWlanConfigResult(g), "Type"))

RunInterfacePhy ==
    /\ op = "init"
    /\ LET g == ConfigGet(arg.w, arg.x)
       IN  Ran("InterfacePhy", g,
               ConfigField("InterfacePhy", InterfaceWlanConfigResult(g), "Phy"))

RunInterfaceById ==
    /\ op = "init"
    /\ LET c0 == [err |-> cerr, inbox |-> inbox]
           msg == [newGenlMessage("CMD_GET_INTERFACE") EXCEPT
                       !.Data = AppendInterfaceIndexAttribute(arg.w.Index)]
           s == SendRequest(c0, msg, arg.x)
           r == Recv(s.c, arg.x)
           q == Client_parseGetInterfaceResponse(r.c, r.msgs)
       IN  /\ op' = "InterfaceById"
           /\ ret' = IF r.blocked THEN Blocked
                     ELSE IF q.c.err # Nil THEN Returns(q.c.err, <<>>)
                     ELSE IF q.wifis = <<>> THEN Panicked
                     ELSE Returns(Nil, <<q.wifis[1]>>)
           /\ cerr' = q.c.err
           /\ inbox' = q.c.inbox
           /\ last' = TraceOf(s, r)
           /\ nops' = nops + 1
           /\ UNCHANGED <<arg, conn>>

NextConfig ==
    \/ RunInterfaceWlanConfig
    \/ RunInterfaceFrequency
    \/ RunInterfaceType
    \/ RunInterfacePhy
    \/ RunInterfaceById

SpecConfig == InitConfig /\ [][NextConfig]_vars

\* C23 (as claimed): when the exchange of a single-interface query succeeds
\* with zero messages, the operation returns an error or a not-found outcome
\* to its caller; it does not end in a run-time panic.
C23_EmptyReplyNoCrash ==
    (op # "init" /\ ~ret.blocked /\ last.recvs = 1 /\ last.err = Nil /\ last.msgs = <<>>) =>
        /\ ret # Panicked
        /\ ret.err # Nil \/ ret.val = None

\* C24 (as claimed): a request built for an interface carries the
\* interface-index attribute exactly once.
C24_IfindexOnce ==
    (op # "init") =>
        \A i \in 1..Len(last.sends) :
            Cardinality(IndicesOf(last.sends[i].msg.Data, "ATTR_IFINDEX")) = 1

----------------------------------------------------------------------------
(* SpecWidth: StationInfo.parseAttributes on streams whose payloads have    *)
(* any width.  nlenc.Uint32 and nlenc.Uint64 panic on a slice that is not   *)
(* 4 and 8 bytes long; a.Data[0] panics on an empty slice.                  *)

\* most attributes in a generated stream
MaxWidthAttrs == 2

\* the station attributes decoded with nlenc.Uint32 in the switch
StaUint32Types ==
    {"STA_INFO_CONNECTED_TIME", "STA_INFO_INACTIVE_TIME", "STA_INFO_RX_PACKETS",
     "STA_INFO_TX_PACKETS", "STA_INFO_TX_RETRIES", "STA_INFO_TX_FAILED",
     "STA_INFO_BEACON_LOSS"}

\* the switch panics on attribute a
StaSwitchPanics(a) ==
    \/ a.Type \in StaUint32Types /\ Len(a.Data.Raw) # 4
    \/ a.Type \in {"STA_INFO_RX_BYTES64", "STA_INFO_TX_BYTES64"} /\ Len(a.Data.Raw) # 8
    \/ a.Type = "STA_INFO_SIGNAL" /\ Len(a.Data.Raw) = 0

\* the fallbacks after the switch panic on attribute a, info being the
\* record as the switch left it
StaFallbackPanics(info, a) ==
    \/ info.ReceivedBytes = 0 /\ a.Type = "STA_INFO_RX_BYTES" /\ Len(a.Data.Raw) # 4
    \/ info.TransmittedBytes = 0 /\ a.Type = "STA_INFO_TX_BYTES" /\ Len(a.Data.Raw) # 4

\* the loop of StationInfo.parseAttributes with its panics: the record and
\* error it returns, or panic
RECURSIVE StaParseOutcome(_, _)
StaParseOutcome(info, attrs) ==
    IF attrs = <<>> THEN [info |-> info, err |-> Nil, panic |-> FALSE]
    ELSE LET a == Head(attrs)
         IN  IF StaSwitchPanics(a)
             THEN [info |-> info, err |-> Nil, panic |-> TRUE]
             ELSE LET s == StaSwitch(info, a)
                  IN  IF s.err # Nil THEN [info |-> s.info, err |-> s.err, panic |-> FALSE]
                      ELSE IF StaFallbackPanics(s.info, a)
                      THEN [info |-> s.info, err |-> Nil, panic |-> TRUE]
                      ELSE StaParseOutcome(StaFallback(s.info, a), Tail(attrs))

\* the generated attributes: a signal, a 32-bit and a 64-bit counter and a
\* packet count, each with a payload of 0, 1, 4 or 8 bytes
WidthPool ==
    { Attr(t, Leaf(b)) :
        t \in {"STA_INFO_SIGNAL", "STA_INFO_RX_BYTES", "STA_INFO_RX_BYTES64",
               "STA_INFO_RX_PACKETS"},
        b \in {<<>>, <<200>>, <<1, 0, 0, 0>>, <<2, 0, 0, 0, 0, 0, 0, 0>>} }

InitWidth ==
    /\ op = "init"
    /\ arg \in SeqUpTo(WidthPool, MaxWidthAttrs)
    /\ ret = Nil
    /\ Idle

RunStaParseAnyWidth ==
    /\ op = "init"
    /\ op' = "StationInfo.parseAttributes"
    /\ ret' = StaParseOutcome(ZeroStationInfo, arg)
    /\ UNCHANGED <<arg, cerr, inbox, last, nops, conn>>

NextWidth == RunStaParseAnyWidth

SpecWidth == InitWidth /\ [][NextWidth]_vars

\* C25 (as claimed, for StationInfo.parseAttributes): on every stream,
\* payloads of the wrong width included, the decoder returns a record or an
\* error and does not panic, and a decoded Signal lies in -128..127.
C25_NoCrashOnWidth ==
    (op = "StationInfo.parseAttributes") =>
        /\ ~ret.panic
        /\ ret.err = Nil => ret.info.Signal \in -128..127

====
